---- MODULE Spec2Model ----
(***************************************************************************)
(* Model of the fermenter-controller MODBUS simulator core:                *)
(* PressureSimulator (src/modbus_simulator/src/pressure_simulator.py) and  *)
(* ModbusHub (src/modbus_simulator/src/modbus_hub.py) with its restoration *)
(* timer, the periodic driver of main.py and the control-plane callers of  *)
(* web_server.py.                                                          *)
(*                                                                         *)
(* Numbers.  The code computes in floats; the model computes exactly, in   *)
(* integers of fixed units:                                                *)
(*   pressure  : 0.01 bar          (1.6 bar = 160)                         *)
(*   rate      : 0.01 bar / second (rate_bar_per_sec, pressure_drop_rate)  *)
(*   rate/min  : 0.01 bar / minute (argument of set_rate)                  *)
(*   time      : 1 second          (delta_t, duration_seconds)             *)
(* A Timer's delay is kept as the exact fraction calc_duration = num/den   *)
(* of seconds; the added 0.5 s enters where the delay is compared.         *)
(* Float rounding is not modelled.  Divisions whose result is not a whole  *)
(* number of units are rounded as stated at the operator.                  *)
(***************************************************************************)
EXTENDS Integers, Sequences, FiniteSets, TLC

\* ------------------------------------------------------------------ bounds
\* Seconds the driver may stay away from a running process between updates.
MaxElapsed == 1
\* How far below 0 / above 1.6 bar the model follows a runaway pressure.
MaxExcursion == 40
\* trigger_pressure_drop calls the event loop makes in one behaviour of SpecSeq.
MaxTriggers == 2
\* trigger_pressure_drop calls all threads together make in one behaviour of Spec.
MaxConcTriggers == 3
\* Threads of the control plane that may call the hub concurrently.
NumCallers == 2

\* ------------------------------------------------------- program constants
\* PressureSensor.MIN_PRESSURE_BAR / MAX_PRESSURE_BAR, the literals 0.0 and 1.6.
MIN_PRESSURE_BAR == 0
MAX_PRESSURE_BAR == 160
\* Seconds per minute: set_rate divides by 60.0, the hub multiplies by 60.
SEC_PER_MIN == 60
\* set_drop_rate's floor, 0.01 bar/s.
MIN_DROP_RATE == 1
\* calc_duration when the drop rate is not positive, 5.0 s.
FALLBACK_DURATION == 5
\* The simulators main.py builds: channels 1 and 2.
NumSimulators == 2

\* Optional[...] arguments and fields: None is the empty tuple, v is <<v>>.
None == << >>

Some(v) == << v >>

Val(o) == o[1]

Max2(a, b) == IF a >= b THEN a ELSE b

Min2(a, b) == IF a <= b THEN a ELSE b

Abs(a) == IF a >= 0 THEN a ELSE 0 - a

\* max(0.0, min(1.6, v))
Clamp(v) == Max2(MIN_PRESSURE_BAR, Min2(MAX_PRESSURE_BAR, v))

\* Python's true division where the model needs a whole number of units:
\* exact when b divides a, otherwise rounded toward minus infinity.
Div(a, b) == a \div b


\* ---------------------------------------------------------------- state
VARIABLES
    sims,               \* simulators[i]: the PressureSimulator of channel i
    drv,                \* the simulator the driver loop updates next
    trigger_active,     \* ModbusHub._trigger_active
    stored_state,       \* ModbusHub._stored_state: None or <<[target, rate]>>
    restore_timer,      \* ModbusHub._restore_timer: None or <<timer id>>
    pressure_drop_rate, \* ModbusHub.pressure_drop_rate
    trigger_callback,   \* whether ModbusHub._trigger_callback is set
    hub_lock,           \* holder of ModbusHub._lock: None or <<thread>>
    timers,             \* every threading.Timer created so far, by id
    calls,              \* per control-plane thread: its trigger call in progress
    ncalls,             \* trigger_pressure_drop calls begun so far
    events,             \* what the trigger callback has received, in order
    hist,               \* history: what a call found when it began (not program state)
    dev,                \* the PressureSensors and the ModbusDevice's register banks
    tim,                \* the ESP32Timer's TimingStats and the use_timing switch
    app                 \* ModbusSimulatorApp: shutdown event, update thread, stop()

vars == << sims, drv, trigger_active, stored_state, restore_timer,
           pressure_drop_rate, trigger_callback, hub_lock, timers, calls,
           ncalls, events, hist, dev, tim, app >>

hubVars == << trigger_active, stored_state, restore_timer, pressure_drop_rate,
              trigger_callback, hub_lock, timers, calls, ncalls, events >>

Simulators == 1 .. NumSimulators

Callers == 1 .. NumCallers

\* -------------------------------------------------- PressureSimulator
\* PressureSimulator.__init__: config.rate_bar_per_min / 60.0, stopped, at the
\* start pressure, last_update = now (since_update = now - last_update).
NewSimulator(start, target, rate_per_min) ==
    [ start_pressure   |-> start,
      target_pressure  |-> target,
      rate_bar_per_sec |-> Div(rate_per_min, SEC_PER_MIN),
      current_pressure |-> start,
      running          |-> FALSE,
      since_update     |-> 0 ]

\* The new current_pressure of update(): toward the target by
\* rate_bar_per_sec * delta_t, bounded by the target with min / max.
Advance(p) ==
    LET delta_p == p.rate_bar_per_sec * p.since_update
    IN  IF p.current_pressure < p.target_pressure
        THEN Min2(p.current_pressure + delta_p, p.target_pressure)
        ELSE IF p.current_pressure > p.target_pressure
             THEN Max2(p.current_pressure - delta_p, p.target_pressure)
             ELSE p.current_pressure

\* update() without the early return of a stopped simulator.
update_Always(p) ==
    [p EXCEPT !.since_update = 0, !.current_pressure = Advance(p)]

\* start() that leaves last_update as it was.
start_KeepClock(p) == [p EXCEPT !.running = TRUE]

update(p) ==
    IF ~p.running
    THEN p
    ELSE [p EXCEPT !.since_update = 0, !.current_pressure = Advance(p)]

start(p) == [p EXCEPT !.running = TRUE, !.since_update = 0]

stop(p) == [p EXCEPT !.running = FALSE]

reset(p) == [p EXCEPT !.current_pressure = p.start_pressure, !.running = FALSE]

set_target(p, target_pressure) ==
    [p EXCEPT !.target_pressure = Clamp(target_pressure)]

set_rate(p, rate_bar_per_min) ==
    [p EXCEPT !.rate_bar_per_sec = Div(rate_bar_per_min, SEC_PER_MIN)]

set_pressure(p, pressure) ==
    [p EXCEPT !.current_pressure = Clamp(pressure)]

\* abs(current - target) < 0.001 bar, which is a tenth of the pressure unit.
is_at_target(p) == 10 * Abs(p.current_pressure - p.target_pressure) < 1

\* ------------------------------------------------------------ ModbusHub
\* ModbusHub.__init__ as create_hub_from_config calls it.
AFFECTED_SENSOR == 1

\* A control-plane thread that is not inside trigger_pressure_drop.  Inside, pc
\* is the source line the thread executes next, "return" once the call has
\* executed its last statement; outcome tells which way it went.
IdleCall ==
    [ pc |-> "idle", outcome |-> "none",
      target_pressure |-> None, duration_seconds |-> None, rate |-> None,
      sensor |-> None, affected |-> 0,
      original_target |-> 0, original_rate |-> 0, drop_rate |-> 0,
      current |-> 0, drop_target |-> 0,
      calc_duration |-> [num |-> 0, den |-> 1] ]

\* A Timer that was cancelled or whose callback is over: nothing of it is
\* read again.
DeadTimer(state) ==
    [ state |-> state, delay |-> [num |-> 0, den |-> 1], waited |-> 0,
      affected |-> 0, original_target |-> 0, original_rate |-> 0 ]

\* 0 < affected <= len(self.simulators)
ValidSensor(affected) == 0 < affected /\ affected <= NumSimulators

\* affected = sensor if sensor is not None else self.affected_sensor
Affected(sensor) == IF sensor # None THEN Val(sensor) ELSE AFFECTED_SENSOR

\* threading.Timer.cancel(): a timer still waiting never runs its function; one
\* whose wait is over is not affected.
CancelTimer(ts, handle) ==
    IF handle = None
    THEN ts
    ELSE [ts EXCEPT ![Val(handle)] =
              IF @.state = "waiting" THEN DeadTimer("cancelled") ELSE @]

\* A Timer's wait is over once waited >= calc_duration + 0.5 seconds.
\* calc_duration is the fraction num / den with den > 0.
DelayOver(t) ==
    2 * t.waited * t.delay.den >= 2 * t.delay.num + t.delay.den

Notify(type, sensor) ==
    IF trigger_callback
    THEN Append(events, [type |-> type, sensor |-> sensor])
    ELSE events

\* set_drop_rate(rate_bar_per_sec): under the lock, max(0.01, rate).
set_drop_rate(rate_bar_per_sec) ==
    /\ hub_lock = None
    /\ pressure_drop_rate' = Max2(MIN_DROP_RATE, rate_bar_per_sec)
    /\ UNCHANGED << sims, drv, trigger_active, stored_state, restore_timer,
                    trigger_callback, hub_lock, timers, calls, ncalls, events >>

\* trigger_pressure_drop, lines 107-134: the first critical section.  An active
\* hub takes the cancel branch and keeps the lock through it; an inactive one
\* sets the flag and releases the lock.
TriggerEnter(c, target_pressure, duration_seconds, rate, sensor) ==
    /\ calls[c].pc = "idle"
    /\ hub_lock = None
    /\ ncalls' = ncalls + 1
    /\ IF trigger_active
       THEN /\ timers' = CancelTimer(timers, restore_timer)
            /\ restore_timer' = None
            /\ trigger_active' = FALSE
            /\ IF ValidSensor(Affected(sensor))
               THEN /\ calls' = [calls EXCEPT ![c] =
                          [IdleCall EXCEPT !.pc = "L121", !.outcome = "cancel",
                              !.sensor = sensor, !.affected = Affected(sensor)]]
                    /\ hub_lock' = Some(c)
               ELSE /\ calls' = [calls EXCEPT ![c] =
                          [IdleCall EXCEPT !.pc = "return",
                              !.outcome = "cancel_invalid",
                              !.sensor = sensor, !.affected = Affected(sensor)]]
                    /\ hub_lock' = None
       ELSE /\ trigger_active' = TRUE
            /\ calls' = [calls EXCEPT ![c] =
                   [IdleCall EXCEPT !.pc = "L137", !.outcome = "start",
                       !.target_pressure = target_pressure,
                       !.duration_seconds = duration_seconds,
                       !.rate = rate, !.sensor = sensor]]
            /\ UNCHANGED << timers, restore_timer, hub_lock >>
    /\ UNCHANGED << sims, drv, stored_state, pressure_drop_rate,
                    trigger_callback, events >>

\* line 121: simulator.stop()
CancelStop(c) ==
    /\ calls[c].pc = "L121"
    /\ sims' = [sims EXCEPT ![calls[c].affected] = stop(@)]
    /\ calls' = [calls EXCEPT ![c].pc =
                    IF stored_state # None THEN "L123" ELSE "L127"]
    /\ UNCHANGED << drv, trigger_active, stored_state, restore_timer,
                    pressure_drop_rate, trigger_callback, hub_lock, timers,
                    ncalls, events >>

\* line 123: simulator.set_target(self._stored_state['target'])
CancelSetTarget(c) ==
    /\ calls[c].pc = "L123"
    /\ sims' = [sims EXCEPT ![calls[c].affected] =
                   set_target(@, Val(stored_state).target)]
    /\ calls' = [calls EXCEPT ![c].pc = "L124"]
    /\ UNCHANGED << drv, trigger_active, stored_state, restore_timer,
                    pressure_drop_rate, trigger_callback, hub_lock, timers,
                    ncalls, events >>

\* lines 124-125: simulator.set_rate(self._stored_state['rate'] * 60), then
\* self._stored_state = None
CancelSetRate(c) ==
    /\ calls[c].pc = "L124"
    /\ sims' = [sims EXCEPT ![calls[c].affected] =
                   set_rate(@, Val(stored_state).rate * SEC_PER_MIN)]
    /\ stored_state' = None
    /\ calls' = [calls EXCEPT ![c].pc = "L127"]
    /\ UNCHANGED << drv, trigger_active, restore_timer, pressure_drop_rate,
                    trigger_callback, hub_lock, timers, ncalls, events >>

\* lines 127-132: the 'pressure_drop_stopped' event, then return, which
\* releases the lock.
CancelNotify(c) ==
    /\ calls[c].pc = "L127"
    /\ events' = Notify("pressure_drop_stopped", calls[c].affected)
    /\ hub_lock' = None
    /\ calls' = [calls EXCEPT ![c].pc = "return"]
    /\ UNCHANGED << sims, drv, trigger_active, stored_state, restore_timer,
                    pressure_drop_rate, trigger_callback, timers, ncalls >>

\* The hub's configured pressure_drop_duration, in seconds.
DropDuration == 2

\* lines 137-149: resolve the channel.  A valid one: read the simulator's
\* target.  An invalid one: take the lock again, clear the flag, return.
TriggerResolve_NoRollback(c) ==
    /\ calls[c].pc = "L137"
    /\ IF ValidSensor(Affected(calls[c].sensor))
       THEN calls' = [calls EXCEPT ![c].pc = "L150",
                   ![c].affected = Affected(calls[c].sensor),
                   ![c].original_target =
                       sims[Affected(calls[c].sensor)].target_pressure]
       ELSE calls' = [calls EXCEPT ![c].pc = "return",
                   ![c].outcome = "rejected",
                   ![c].affected = Affected(calls[c].sensor)]
    /\ UNCHANGED << sims, drv, trigger_active, stored_state, restore_timer,
                    pressure_drop_rate, trigger_callback, hub_lock, timers,
                    ncalls, events >>

TriggerResolve(c) ==
    /\ calls[c].pc = "L137"
    /\ IF ValidSensor(Affected(calls[c].sensor))
       THEN /\ calls' = [calls EXCEPT ![c].pc = "L150",
                   ![c].affected = Affected(calls[c].sensor),
                   ![c].original_target =
                       sims[Affected(calls[c].sensor)].target_pressure]
            /\ UNCHANGED trigger_active
       ELSE /\ hub_lock = None
            /\ trigger_active' = FALSE
            /\ calls' = [calls EXCEPT ![c].pc = "return",
                   ![c].outcome = "rejected",
                   ![c].affected = Affected(calls[c].sensor)]
    /\ UNCHANGED << sims, drv, stored_state, restore_timer, pressure_drop_rate,
                    trigger_callback, hub_lock, timers, ncalls, events >>

\* line 150: original_rate = simulator.rate_bar_per_sec
TriggerReadRate(c) ==
    /\ calls[c].pc = "L150"
    /\ calls' = [calls EXCEPT ![c].pc = "L151",
            ![c].original_rate = sims[calls[c].affected].rate_bar_per_sec]
    /\ UNCHANGED << sims, drv, trigger_active, stored_state, restore_timer,
                    pressure_drop_rate, trigger_callback, hub_lock, timers,
                    ncalls, events >>

\* lines 151-154: self._stored_state = {...}, written without the lock, and
\* drop_rate = rate if rate is not None else self.pressure_drop_rate
TriggerStore(c) ==
    /\ calls[c].pc = "L151"
    /\ stored_state' = Some([target |-> calls[c].original_target,
                             rate |-> calls[c].original_rate])
    /\ calls' = [calls EXCEPT ![c].pc = "L157",
            ![c].drop_rate = IF calls[c].rate # None
                             THEN Val(calls[c].rate)
                             ELSE pressure_drop_rate]
    /\ UNCHANGED << sims, drv, trigger_active, restore_timer,
                    pressure_drop_rate, trigger_callback, hub_lock, timers,
                    ncalls, events >>

\* lines 160-175: the drop target and the calculated duration (a fraction of
\* seconds), by priority target_pressure, duration_seconds, configured default.
DropTarget(cl, current) ==
    IF cl.target_pressure # None
    THEN Clamp(Val(cl.target_pressure))
    ELSE IF cl.duration_seconds # None
         THEN Max2(0, current - cl.drop_rate * Val(cl.duration_seconds))
         ELSE Max2(0, current - cl.drop_rate * DropDuration)

CalcDuration(cl, current) ==
    IF cl.target_pressure # None
    THEN IF cl.drop_rate > 0
         THEN [num |-> Abs(current - Clamp(Val(cl.target_pressure))),
               den |-> cl.drop_rate]
         ELSE [num |-> FALLBACK_DURATION, den |-> 1]
    ELSE IF cl.duration_seconds # None
         THEN [num |-> Val(cl.duration_seconds), den |-> 1]
         ELSE [num |-> DropDuration, den |-> 1]

\* lines 157-175: current = simulator.current_pressure, then the computation.
TriggerReadCurrent(c) ==
    /\ calls[c].pc = "L157"
    /\ LET current == sims[calls[c].affected].current_pressure
       IN  calls' = [calls EXCEPT ![c].pc = "L183",
                ![c].current = current,
                ![c].drop_target = DropTarget(calls[c], current),
                ![c].calc_duration = CalcDuration(calls[c], current)]
    /\ UNCHANGED << sims, drv, trigger_active, stored_state, restore_timer,
                    pressure_drop_rate, trigger_callback, hub_lock, timers,
                    ncalls, events >>

\* line 183: simulator.set_target(drop_target)
TriggerSetTarget(c) ==
    /\ calls[c].pc = "L183"
    /\ sims' = [sims EXCEPT ![calls[c].affected] =
                   set_target(@, calls[c].drop_target)]
    /\ calls' = [calls EXCEPT ![c].pc = "L184"]
    /\ UNCHANGED << drv, trigger_active, stored_state, restore_timer,
                    pressure_drop_rate, trigger_callback, hub_lock, timers,
                    ncalls, events >>

\* line 184: simulator.set_rate(drop_rate * 60)
TriggerSetRate(c) ==
    /\ calls[c].pc = "L184"
    /\ sims' = [sims EXCEPT ![calls[c].affected] =
                   set_rate(@, calls[c].drop_rate * SEC_PER_MIN)]
    /\ calls' = [calls EXCEPT ![c].pc = "L185"]
    /\ UNCHANGED << drv, trigger_active, stored_state, restore_timer,
                    pressure_drop_rate, trigger_callback, hub_lock, timers,
                    ncalls, events >>

\* lines 185-196: simulator.start(), then the 'pressure_drop' event
TriggerStart_NotStarted(c) ==
    /\ calls[c].pc = "L185"
    /\ events' = Notify("pressure_drop", calls[c].affected)
    /\ calls' = [calls EXCEPT ![c].pc = "L220"]
    /\ UNCHANGED << sims, drv, trigger_active, stored_state, restore_timer,
                    pressure_drop_rate, trigger_callback, hub_lock, timers,
                    ncalls >>

TriggerStart(c) ==
    /\ calls[c].pc = "L185"
    /\ sims' = [sims EXCEPT ![calls[c].affected] = start(@)]
    /\ events' = Notify("pressure_drop", calls[c].affected)
    /\ calls' = [calls EXCEPT ![c].pc = "L220"]
    /\ UNCHANGED << drv, trigger_active, stored_state, restore_timer,
                    pressure_drop_rate, trigger_callback, hub_lock, timers,
                    ncalls >>

\* lines 198-221: the Timer running restore() after calc_duration + 0.5 s,
\* with the closure's simulator, original_target, original_rate and affected.
NewTimer(cl) ==
    [ state |-> "waiting", delay |-> cl.calc_duration, waited |-> 0,
      affected |-> cl.affected,
      original_target |-> cl.original_target,
      original_rate |-> cl.original_rate ]

TriggerSchedule(c) ==
    /\ calls[c].pc = "L220"
    /\ timers' = Append(timers, NewTimer(calls[c]))
    /\ restore_timer' = Some(Len(timers) + 1)
    /\ calls' = [calls EXCEPT ![c].pc = "return"]
    /\ UNCHANGED << sims, drv, trigger_active, stored_state,
                    pressure_drop_rate, trigger_callback, hub_lock, ncalls,
                    events >>

\* The call returns to the control plane.
TriggerReturn(c) ==
    /\ calls[c].pc = "return"
    /\ calls' = [calls EXCEPT ![c] = IdleCall]
    /\ UNCHANGED << sims, drv, trigger_active, stored_state, restore_timer,
                    pressure_drop_rate, trigger_callback, hub_lock, timers,
                    ncalls, events >>

\* ------------------------------------------------- the restoration timer
\* The Timer thread's wait ends: restore() is about to run.
TimerFire(k) ==
    /\ timers[k].state = "waiting"
    /\ DelayOver(timers[k])
    /\ timers' = [timers EXCEPT ![k].state = "L200"]
    /\ UNCHANGED << sims, drv, trigger_active, stored_state, restore_timer,
                    pressure_drop_rate, trigger_callback, hub_lock, calls,
                    ncalls, events >>

\* restore(), lines 200-202: under the lock, clear the flag and the snapshot.
RestoreClear(k) ==
    /\ timers[k].state = "L200"
    /\ hub_lock = None
    /\ trigger_active' = FALSE
    /\ stored_state' = None
    /\ timers' = [timers EXCEPT ![k].state = "L207"]
    /\ UNCHANGED << sims, drv, restore_timer, pressure_drop_rate,
                    trigger_callback, hub_lock, calls, ncalls, events >>

\* restore(), line 207: simulator.set_target(original_target)
RestoreSetTarget(k) ==
    /\ timers[k].state = "L207"
    /\ sims' = [sims EXCEPT ![timers[k].affected] =
                   set_target(@, timers[k].original_target)]
    /\ timers' = [timers EXCEPT ![k].state = "L208"]
    /\ UNCHANGED << drv, trigger_active, stored_state, restore_timer,
                    pressure_drop_rate, trigger_callback, hub_lock, calls,
                    ncalls, events >>

\* restore(), line 208: simulator.set_rate(original_rate * 60)
RestoreSetRate_PerSecond(k) ==
    /\ timers[k].state = "L208"
    /\ sims' = [sims EXCEPT ![timers[k].affected] =
                   set_rate(@, timers[k].original_rate)]
    /\ timers' = [timers EXCEPT ![k].state = "L209"]
    /\ UNCHANGED << drv, trigger_active, stored_state, restore_timer,
                    pressure_drop_rate, trigger_callback, hub_lock, calls,
                    ncalls, events >>

RestoreSetRate(k) ==
    /\ timers[k].state = "L208"
    /\ sims' = [sims EXCEPT ![timers[k].affected] =
                   set_rate(@, timers[k].original_rate * SEC_PER_MIN)]
    /\ timers' = [timers EXCEPT ![k].state = "L209"]
    /\ UNCHANGED << drv, trigger_active, stored_state, restore_timer,
                    pressure_drop_rate, trigger_callback, hub_lock, calls,
                    ncalls, events >>

\* restore(), lines 209-216: simulator.stop(), then the 'pressure_restore'
\* event; the callback is over.
RestoreStop(k) ==
    /\ timers[k].state = "L209"
    /\ sims' = [sims EXCEPT ![timers[k].affected] = stop(@)]
    /\ events' = Notify("pressure_restore", timers[k].affected)
    /\ timers' = [timers EXCEPT ![k].state = "return"]
    /\ UNCHANGED << drv, trigger_active, stored_state, restore_timer,
                    pressure_drop_rate, trigger_callback, hub_lock, calls,
                    ncalls >>

\* restore() returns and the Timer thread ends.
RestoreReturn(k) ==
    /\ timers[k].state = "return"
    /\ timers' = [timers EXCEPT ![k] = DeadTimer("done")]
    /\ UNCHANGED << sims, drv, trigger_active, stored_state, restore_timer,
                    pressure_drop_rate, trigger_callback, hub_lock, calls,
                    ncalls, events >>

\* stop_monitoring(), lines 259-261: cancel the timer the handle names and
\* forget it, without the lock.
stop_monitoring ==
    /\ restore_timer # None
    /\ timers' = CancelTimer(timers, restore_timer)
    /\ restore_timer' = None
    /\ UNCHANGED << sims, drv, trigger_active, stored_state,
                    pressure_drop_rate, trigger_callback, hub_lock, calls,
                    ncalls, events >>

\* ----------------------------------------------- time and the driver loop
\* One second passes.  A stopped simulator's since_update is never read before
\* start() resets it, so it stops growing at MaxElapsed; so does the waiting
\* time of a Timer whose delay is over.
Tick ==
    /\ \A i \in Simulators : sims[i].running => sims[i].since_update < MaxElapsed
    /\ sims' = [i \in Simulators |->
                   [sims[i] EXCEPT !.since_update = Min2(@ + 1, MaxElapsed)]]
    /\ timers' = [k \in DOMAIN timers |->
                   IF timers[k].state = "waiting" /\ ~DelayOver(timers[k])
                   THEN [timers[k] EXCEPT !.waited = @ + 1]
                   ELSE timers[k]]
    /\ UNCHANGED << drv, trigger_active, stored_state, restore_timer,
                    pressure_drop_rate, trigger_callback, hub_lock, calls,
                    ncalls, events >>

\* The model follows a pressure MaxExcursion beyond the sensor range, no further.
InModelRange(p) ==
    /\ p.current_pressure >= MIN_PRESSURE_BAR - MaxExcursion
    /\ p.current_pressure <= MAX_PRESSURE_BAR + MaxExcursion

\* _sensor_update_loop: for simulator in self.simulators: simulator.update()
DriverUpdate ==
    /\ InModelRange(update(sims[drv]))
    /\ sims' = [sims EXCEPT ![drv] = update(@)]
    /\ drv' = (drv % NumSimulators) + 1
    /\ UNCHANGED hubVars

\* ------------------------------------------------ control-plane mutators
\* web_server.py: the REST and WebSocket handlers, 0 < sensor <= len(simulators).
UserStart(i) ==
    /\ sims' = [sims EXCEPT ![i] = start(@)]
    /\ UNCHANGED << drv, hubVars >>

UserStop(i) ==
    /\ sims' = [sims EXCEPT ![i] = stop(@)]
    /\ UNCHANGED << drv, hubVars >>

UserReset(i) ==
    /\ sims' = [sims EXCEPT ![i] = reset(@)]
    /\ UNCHANGED << drv, hubVars >>

UserSetTarget(i, target) ==
    /\ sims' = [sims EXCEPT ![i] = set_target(@, target)]
    /\ UNCHANGED << drv, hubVars >>

UserSetRate(i, rate) ==
    /\ sims' = [sims EXCEPT ![i] = set_rate(@, rate)]
    /\ UNCHANGED << drv, hubVars >>

UserSetPressure(i, pressure) ==
    /\ sims' = [sims EXCEPT ![i] = set_pressure(@, pressure)]
    /\ UNCHANGED << drv, hubVars >>

\* ------------------------------------------------------------ the system
\* The history variable.  entry: the state the call in progress found when it
\* began; started: the target and rate the affected simulator had when the
\* latest disturbance began, with that disturbance's Timer and, where the
\* specification records them, its endpoint and rate; since_start: the time
\* since the control plane last called start() on the process, as far as
\* MaxElapsed.
NoEntry == [ sims |-> << >>, active |-> FALSE, stored |-> None,
             handle |-> None, nevents |-> 0, ntimers |-> 0 ]

NoStarted == [ timer |-> 0, affected |-> 0, target |-> 0, rate |-> 0,
               endpoint |-> 0, drop_rate |-> 0 ]

NoHist == [ entry |-> NoEntry, started |-> NoStarted, op |-> "none",
            since_start |-> 0 ]

Entry == [ sims |-> sims, active |-> trigger_active, stored |-> stored_state,
           handle |-> restore_timer, nevents |-> Len(events),
           ntimers |-> Len(timers) ]

\* --------------------------------------------------- ModbusSimulatorApp
\* main.py after start(): the shutdown event clear, the update thread at the
\* head of its loop, the hub monitoring, stop() not called.  loop is the
\* update thread's position, stop that of the thread inside stop().
\* late_rounds counts the rounds over the simulators the loop completed with
\* the event set, late_wait tells whether it began a wait with the event set,
\* late_raise whether a round raised with the event set: all three are history.
NewApp ==
    [ shutdown    |-> FALSE,
      loop        |-> "test",
      stop        |-> "none",
      hub_running |-> TRUE,
      late_rounds |-> 0,
      late_wait   |-> FALSE,
      late_raise  |-> FALSE ]

\* ------------------------------------------------------- PressureSensor
\* sensor.py.  Currents are in 0.1 mA, so that the 4-20 mA span over the
\* 0-1.6 bar range is one current unit per pressure unit.
MIN_CURRENT_MA == 40

MAX_CURRENT_MA == 200

MAX_MODBUS_VALUE == 32767

\* update(): current_ma = 0.0 on a wire break, 25.0 on a sensor defect.
WIRE_BREAK_MA == 0

SENSOR_DEFECT_MA == 250

\* SENSOR_NOISE_PERCENT as configured: 2 percent.
ConfigNoisePercent == 2

\* int(x) of a quotient: truncation toward zero.
Trunc(a, b) == IF a >= 0 THEN a \div b ELSE -((-a) \div b)

\* PressureSensor.__init__
NewSensor(noise_percent, noise_type) ==
    [ noise_percent     |-> noise_percent,
      noise_type        |-> noise_type,
      true_pressure     |-> 0,
      measured_pressure |-> 0,
      current_ma        |-> MIN_CURRENT_MA,
      modbus_value      |-> 0,
      fault_mode        |-> "none" ]

\* What self._rng can return, as a relative noise in percent: gauss() is
\* unbounded, uniform() stays within +-noise_percent.
NoiseDraws(s) ==
    IF s.noise_percent <= 0 THEN {0}
    ELSE IF s.noise_type = "gaussian" THEN {-2, 0, 10}
    ELSE {d \in {-2, 0, 10} : Abs(d) <= s.noise_percent}

\* _add_noise, for the drawn noise; the product is kept to the pressure unit.
add_noise(s, value, noise) ==
    IF s.noise_percent <= 0 THEN value
    ELSE Max2(MIN_PRESSURE_BAR,
              Min2(MAX_PRESSURE_BAR, Div(value * (100 + noise), 100)))

\* _pressure_to_current without the 4 mA floor of the loop.
pressure_to_current_NoFloor(pressure_bar) ==
    Div((pressure_bar - MIN_PRESSURE_BAR) * (MAX_CURRENT_MA - MIN_CURRENT_MA),
        MAX_PRESSURE_BAR - MIN_PRESSURE_BAR)

\* _pressure_to_current
pressure_to_current(pressure_bar) ==
    MIN_CURRENT_MA
      + Div((pressure_bar - MIN_PRESSURE_BAR) * (MAX_CURRENT_MA - MIN_CURRENT_MA),
            MAX_PRESSURE_BAR - MIN_PRESSURE_BAR)

\* _current_to_modbus: int(ratio * MAX_MODBUS_VALUE), then the clamp.
current_to_modbus(current_ma) ==
    Max2(0, Min2(MAX_MODBUS_VALUE,
                 Trunc((current_ma - MIN_CURRENT_MA) * MAX_MODBUS_VALUE,
                       MAX_CURRENT_MA - MIN_CURRENT_MA)))

\* PressureSensor.update(true_pressure_bar), for the drawn noise.
sensor_update(s, true_pressure_bar, noise) ==
    LET tp == Max2(MIN_PRESSURE_BAR, Min2(MAX_PRESSURE_BAR, true_pressure_bar))
        mp == add_noise(s, tp, noise)
    IN  IF s.fault_mode = "wire_break"
        THEN [s EXCEPT !.true_pressure = tp,
                       !.measured_pressure = 0,
                       !.current_ma = WIRE_BREAK_MA,
                       !.modbus_value = 0]
        ELSE IF s.fault_mode = "sensor_defect"
        THEN [s EXCEPT !.true_pressure = tp,
                       !.measured_pressure = tp,
                       !.current_ma = SENSOR_DEFECT_MA,
                       !.modbus_value =
                           Trunc((SENSOR_DEFECT_MA - MIN_CURRENT_MA) * MAX_MODBUS_VALUE,
                                 MAX_CURRENT_MA - MIN_CURRENT_MA)]
        ELSE [s EXCEPT !.true_pressure = tp,
                       !.measured_pressure = mp,
                       !.current_ma = pressure_to_current(mp),
                       !.modbus_value = current_to_modbus(pressure_to_current(mp))]

\* PressureSensor.set_fault(fault_mode)
set_fault(s, fault_mode) == [s EXCEPT !.fault_mode = fault_mode]

\* PressureSensor.set_noise_config(noise_percent, noise_type)
set_noise_config(s, noise_percent, noise_type) ==
    [s EXCEPT !.noise_percent = IF noise_percent = None THEN @ ELSE Val(noise_percent),
              !.noise_type = IF noise_type = None THEN @ ELSE Val(noise_type)]

FaultModes == {"none", "wire_break", "sensor_defect"}

\* --------------------------------------------------------- ModbusDevice
\* modbus_device.py.  The register map of the Waveshare 8-channel module.
NUM_CHANNELS == 8

REG_INPUT_CH1 == 0

REG_DATA_TYPE_BASE == 4096

REG_UART_PARAMS == 8192

REG_DEVICE_ADDR == 16384

REG_SOFTWARE_VER == 32768

DATA_TYPE_4_20MA == 3

SOFTWARE_VERSION == 100

\* MODBUS_SLAVE_ID as configured.
ConfigSlaveId == 1

\* hr_size = 0x8001: the holding block answers the addresses 0 .. 0x8000.
HR_SIZE == 32769

Channels == 1..NUM_CHANNELS

\* DelayedDataBlock(0, [0] * 9, ...): the indices 0 .. 8 of the input block.
InputCells == 0..NUM_CHANNELS

\* The cells of the holding block the model tracks: every documented address
\* and the cell after it.  All other cells of the block hold the 0 they were
\* built with, as nothing in the model writes them.
HoldingCells ==
    (REG_DATA_TYPE_BASE .. REG_DATA_TYPE_BASE + NUM_CHANNELS)
      \cup {REG_UART_PARAMS, REG_UART_PARAMS + 1,
            REG_DEVICE_ADDR, REG_DEVICE_ADDR + 1, REG_SOFTWARE_VER}

\* The broadcast address the server context also answers under.
BROADCAST_ADDR == 0

\* BAUD_RATES.get(baud_code, 9600)
BaudRate(baud_code) ==
    CASE baud_code = 0 -> 4800
      [] baud_code = 1 -> 9600
      [] baud_code = 2 -> 19200
      [] baud_code = 3 -> 38400
      [] baud_code = 4 -> 57600
      [] baud_code = 5 -> 115200
      [] OTHER -> 9600

\* PARITY_MODES.get(parity_code, 'N')
ParityMode(parity_code) ==
    CASE parity_code = 0 -> "N"
      [] parity_code = 1 -> "E"
      [] parity_code = 2 -> "O"
      [] OTHER -> "N"

\* Python's a | b on integers a, b >= 0.
RECURSIVE BitOr(_, _)
BitOr(a, b) ==
    IF a = 0 THEN b
    ELSE IF b = 0 THEN a
    ELSE 2 * BitOr(a \div 2, b \div 2) + (IF a % 2 = 1 \/ b % 2 = 1 THEN 1 ELSE 0)

\* The threads that call into the timer and the register banks: the Modbus
\* server's handler and the web server's status poll.
Readers == {1, 2}

\* ModbusDevice.__init__, after the sensors and their simulators were built
\* (PressureSimulator.__init__ ends with sensor.update(start_pressure), here
\* for the drawn noise).  offset is what the server context adds to a wire
\* address before it indexes a block.  fed, seen, quiet and stage are history:
\* the value each sensor's latest update() was given, the fault mode in force
\* at that update, whether noise was switched off at that update, and how far
\* the driver cycle got on each channel since its latest set_fault (0: nothing
\* yet, 1: the update step passed, 2: and the refresh after it); published is
\* the process value the latest refresh took from each channel's sensor, 0
\* for a channel without sensor; uart_args is the latest set_uart_params call's
\* pair of arguments.  served is the set of bus addresses the server context
\* was built with: devices={slave_id: ..., 0: ...}, one context for both.
\* lock is the holder of the input block's threading.Lock: a reader, or 0 for
\* the thread that refreshes; cursor is the 1-based register update_registers
\* writes next, 0 outside update_registers.  More history: cycles, the
\* update_registers calls begun; banks, the contents of the input block as
\* __init__ and each finished update_registers left them; got, what each
\* reader's latest block read returned; began, the value of cycles when a
\* reader's latest read was called.
NewDevice(noise_percent, noise, offset) ==
    [ sensors |-> [i \in Simulators |->
                      sensor_update(NewSensor(noise_percent, "gaussian"),
                                    IF i = 1 THEN 50 ELSE 150, noise)],
      input_registers   |-> [a \in InputCells |-> 0],
      holding_registers |-> [a \in HoldingCells |->
                                IF a \in REG_DATA_TYPE_BASE ..
                                           REG_DATA_TYPE_BASE + NUM_CHANNELS - 1
                                THEN DATA_TYPE_4_20MA
                                ELSE IF a = REG_DEVICE_ADDR THEN ConfigSlaveId
                                ELSE IF a = REG_SOFTWARE_VER THEN SOFTWARE_VERSION
                                ELSE 0],
      offset      |-> offset,
      refresh_due |-> FALSE,
      fed         |-> [i \in Simulators |-> IF i = 1 THEN 50 ELSE 150],
      seen        |-> [i \in Simulators |-> "none"],
      quiet       |-> [i \in Simulators |-> noise_percent <= 0],
      stage       |-> [i \in Simulators |-> 2],
      published   |-> [k \in Channels |-> 0],
      slave_id          |-> ConfigSlaveId,
      served            |-> {ConfigSlaveId, BROADCAST_ADDR},
      current_baudrate  |-> 9600,
      current_parity    |-> "N",
      uart_args         |-> None,
      lock   |-> None,
      cursor |-> 0,
      cycles |-> 0,
      banks  |-> {[a \in InputCells |-> 0]},
      got    |-> [r \in Readers |-> None],
      began  |-> [r \in Readers |-> 0] ]

\* ModbusSequentialDataBlock.getValues(address, 1)[0] on the input block;
\* None where the block has no such cell.
InputGet(d, address) ==
    IF address \in InputCells THEN Some(d.input_registers[address]) ELSE None

\* ModbusSequentialDataBlock.getValues(address, 1)[0] on the holding block.
HoldingGet(d, address) ==
    IF address \notin 0..(HR_SIZE - 1) THEN None
    ELSE IF address \in HoldingCells THEN Some(d.holding_registers[address])
    ELSE Some(0)

\* update_registers: setValues(i + 1, [modbus_value]) for each sensor, then
\* setValues(i + 1, [0]) for i in range(len(sensors), 8).
update_registers(d) ==
    [d EXCEPT !.input_registers =
        [a \in InputCells |->
            IF a \in 1..NumSimulators THEN d.sensors[a].modbus_value
            ELSE IF a \in (NumSimulators + 1)..NUM_CHANNELS THEN 0
            ELSE d.input_registers[a]]]

\* What update_registers reads: sensor.get_state()['modbus_value'] of each
\* sensor in turn, and 0 for the channels after the last sensor.
Published(d) ==
    [k \in Channels |-> IF k \in Simulators THEN d.sensors[k].modbus_value ELSE 0]

\* get_register_values: input_registers.getValues(0, 8).  Position k of the
\* sequence is position k - 1 of the Python list.
get_register_values(d) == [k \in Channels |-> d.input_registers[k - 1]]

\* get_data_types: holding_registers.getValues(0x1000, 8)
get_data_types(d) ==
    [k \in Channels |-> d.holding_registers[REG_DATA_TYPE_BASE + k - 1]]

\* set_data_type without its range check.
set_data_type_Unchecked(d, channel, data_type) ==
    [d EXCEPT !.holding_registers =
        [a \in HoldingCells |->
            IF a = REG_DATA_TYPE_BASE + channel - 1 THEN data_type
            ELSE d.holding_registers[a]]]

\* set_data_type(channel, data_type)
set_data_type(d, channel, data_type) ==
    IF 1 <= channel /\ channel <= 8 /\ 0 <= data_type /\ data_type <= 4
    THEN [d EXCEPT !.holding_registers[REG_DATA_TYPE_BASE + channel - 1] = data_type]
    ELSE d

\* get_device_address
get_device_address(d) == d.holding_registers[REG_DEVICE_ADDR]

\* set_device_address(address)
set_device_address(d, address) ==
    IF 1 <= address /\ address <= 255
    THEN [d EXCEPT !.holding_registers[REG_DEVICE_ADDR] = address]
    ELSE d

\* The word get_uart_params decodes: holding_registers.getValues(0x2000, 1)[0]
get_uart_word(d) == d.holding_registers[REG_UART_PARAMS]

\* get_uart_params with the two bytes of the word taken the other way round.
get_uart_params_Swapped(d) ==
    LET value == d.holding_registers[REG_UART_PARAMS]
    IN  [ baudrate |-> BaudRate((value \div 256) % 256),
          parity   |-> ParityMode(value % 256) ]

\* get_uart_params: parity_code = (value >> 8) & 0xFF, baud_code = value & 0xFF
get_uart_params(d) ==
    LET value == d.holding_registers[REG_UART_PARAMS]
    IN  [ baudrate |-> BaudRate(value % 256),
          parity   |-> ParityMode((value \div 256) % 256) ]

\* set_uart_params(parity_code, baud_code): the word
\* (parity_code << 8) | baud_code is written whatever the codes are, then
\* _current_baudrate and _current_parity are set from the lookup tables.
set_uart_params(d, parity_code, baud_code) ==
    [d EXCEPT !.holding_registers[REG_UART_PARAMS] =
                  BitOr(parity_code * 256, baud_code),
              !.current_baudrate = BaudRate(baud_code),
              !.current_parity   = ParityMode(parity_code),
              !.uart_args        = Some(<< parity_code, baud_code >>)]

\* The word get_software_version decodes: getValues(0x8000, 1)[0]
get_software_word(d) == d.holding_registers[REG_SOFTWARE_VER]

\* get_config_state, the version word left undecoded.
get_config_state(d) ==
    [ slave_id         |-> d.slave_id,
      device_address   |-> get_device_address(d),
      baudrate         |-> get_uart_params(d).baudrate,
      parity           |-> get_uart_params(d).parity,
      software_version |-> get_software_word(d),
      data_types       |-> get_data_types(d) ]

\* A read of one input register (function code 0x04) through the server
\* context built in __init__: ir=self.input_registers.
ContextReadInput(d, address) == InputGet(d, address + d.offset)

\* A read of one holding register (function code 0x03) through the server
\* context built in __init__: hr=self.holding_registers.
ContextReadHolding(d, address) == HoldingGet(d, address + d.offset)

\* ---------------------------------------------------- TimingStats, ESP32Timer
\* timing.py.  Times are in units of 0.01 ms.
\* deque(maxlen=100): the window of retained samples, scaled down.
StatsWindow == 3

\* TimingStats.__init__ inside ESP32Timer.__init__, with the device's
\* use_timing switch.  pc: where each thread is ("delay": asleep in a delay()
\* it called itself, "read": asleep in the delay() of a read).  The rest is
\* history: log, every sample ever recorded, in arrival order; asked, the
\* delay() calls begun directly; reads, the calls of a read entry point begun;
\* done, the delay() calls that returned; peeks, the get_delay_value() calls;
\* polled, whether the status was ever polled; computed, the delay each
\* delay() and get_delay_value() call computed, in microseconds, with the
\* method that computed it.  base_delay_ms and jitter_ms are in milliseconds,
\* as configured.
NewTiming(use_timing) ==
    [ use_timing     |-> use_timing,
      base_delay_ms  |-> 10,
      jitter_ms      |-> 2,
      computed       |-> << >>,
      response_times |-> << >>,
      total_requests |-> 0,
      pc             |-> [r \in Readers |-> "idle"],
      log            |-> << >>,
      asked          |-> 0,
      reads          |-> 0,
      done           |-> 0,
      peeks          |-> 0,
      polled         |-> FALSE ]

\* TimingStats.record without its append.
record_CountOnly(t, response_time_ms) ==
    [t EXCEPT !.total_requests = @ + 1]

\* TimingStats.record: response_times.append on a deque(maxlen), and the count.
record(t, response_time_ms) ==
    [t EXCEPT !.response_times =
                  IF Len(@) < StatsWindow THEN Append(@, response_time_ms)
                  ELSE Append(Tail(@), response_time_ms),
              !.total_requests = @ + 1]

\* Python's round() of the quotient a / b, b > 0: to the nearest integer, a tie
\* to the even one.
Round(a, b) ==
    LET q == a \div b
        r == a % b
    IN  IF 2 * r < b THEN q
        ELSE IF 2 * r > b THEN q + 1
        ELSE IF q % 2 = 0 THEN q ELSE q + 1

RECURSIVE SumSeq(_)
SumSeq(q) == IF q = << >> THEN 0 ELSE Head(q) + SumSeq(Tail(q))

\* min(times) taken to be the oldest sample.
SeqMin_Oldest(q) == q[1]

SeqMin(q) == CHOOSE m \in {q[k] : k \in DOMAIN q} : \A k \in DOMAIN q : m <= q[k]

SeqMax(q) == CHOOSE m \in {q[k] : k \in DOMAIN q} : \A k \in DOMAIN q : m >= q[k]

\* round(variance ** 0.5, 2) for the population variance of q: the whole
\* number of time units nearest to sqrt(n * sum(t^2) - sum(t)^2) / n.
Jitter(q) ==
    LET n == Len(q)
        d == n * SumSeq([k \in DOMAIN q |-> q[k] * q[k]]) - SumSeq(q) * SumSeq(q)
    IN  CHOOSE j \in 0..SeqMax(q) :
            /\ (2 * j - 1) * (2 * j - 1) * n * n <= 4 * d \/ j = 0
            /\ 4 * d < (2 * j + 1) * (2 * j + 1) * n * n

\* TimingStats.get_stats
get_stats(t) ==
    IF t.response_times = << >>
    THEN [ avg_response_ms |-> 0, min_response_ms |-> 0, max_response_ms |-> 0,
           jitter_ms |-> 0, total_requests |-> t.total_requests ]
    ELSE [ avg_response_ms |-> Round(SumSeq(t.response_times), Len(t.response_times)),
           min_response_ms |-> SeqMin(t.response_times),
           max_response_ms |-> SeqMax(t.response_times),
           jitter_ms       |-> IF Len(t.response_times) > 1
                               THEN Jitter(t.response_times) ELSE 0,
           total_requests  |-> t.total_requests ]

\* pressure_drop_rate as configured: 0.5 bar/s.
ConfigDropRate == 50

\* After ModbusSimulator._init_components and the subscription of the event
\* consumer (set_trigger_callback): channel 1 starts at 0.5 bar with target
\* 0.6 bar, channel 2 rests at 1.5 bar, both at 6 bar/min, stopped.
InitPlant ==
    /\ sims = [i \in Simulators |->
                  IF i = 1 THEN NewSimulator(50, 60, 600)
                           ELSE NewSimulator(150, 150, 600)]
    /\ drv = 1
    /\ trigger_active = FALSE
    /\ stored_state = None
    /\ restore_timer = None
    /\ pressure_drop_rate = ConfigDropRate
    /\ trigger_callback = TRUE
    /\ hub_lock = None
    /\ timers = << >>
    /\ calls = [c \in Callers |-> IdleCall]
    /\ ncalls = 0
    /\ events = << >>
    /\ hist = NoHist
    /\ app = NewApp

\* The device as built beside it, with timing enabled as configured.
Init ==
    /\ InitPlant
    /\ dev = NewDevice(ConfigNoisePercent, 0, 1)
    /\ tim = NewTiming(TRUE)

\* Argument values the control plane sends (pydantic accepts any float / int).
TargetInputs == {-20, 40, 200}

RateInputs == {-600, 0, 1200}

PressureInputs == {-20, 80, 200}

TargetArgs == {None, Some(30)}

DurationArgs == {None, Some(1)}

RateArgs == {None, Some(0), Some(20)}

SensorArgs == {None, Some(2), Some(3)}

DropRateInputs == {-5, 50}

InCallback(k) == timers[k].state \in {"L200", "L207", "L208", "L209", "return"}

\* The steps of a call between its first critical section and the scheduling
\* of the Timer; none of them is a moment the history variable records.
CallRun(c) ==
    \/ CancelStop(c) /\ UNCHANGED << hist, dev, tim, app >>
    \/ CancelSetTarget(c) /\ UNCHANGED << hist, dev, tim, app >>
    \/ CancelSetRate(c) /\ UNCHANGED << hist, dev, tim, app >>
    \/ CancelNotify(c) /\ UNCHANGED << hist, dev, tim, app >>
    \/ TriggerResolve(c) /\ UNCHANGED << hist, dev, tim, app >>
    \/ TriggerReadRate(c) /\ UNCHANGED << hist, dev, tim, app >>
    \/ TriggerStore(c) /\ UNCHANGED << hist, dev, tim, app >>
    \/ TriggerReadCurrent(c) /\ UNCHANGED << hist, dev, tim, app >>
    \/ TriggerSetTarget(c) /\ UNCHANGED << hist, dev, tim, app >>
    \/ TriggerSetRate(c) /\ UNCHANGED << hist, dev, tim, app >>
    \/ TriggerStart(c) /\ UNCHANGED << hist, dev, tim, app >>

\* The steps of the restore() callback.
RestoreStep ==
    \/ \E k \in DOMAIN timers : RestoreClear(k) /\ UNCHANGED << hist, dev, tim, app >>
    \/ \E k \in DOMAIN timers : RestoreSetTarget(k) /\ UNCHANGED << hist, dev, tim, app >>
    \/ \E k \in DOMAIN timers : RestoreSetRate(k) /\ UNCHANGED << hist, dev, tim, app >>
    \/ \E k \in DOMAIN timers : RestoreStop(k) /\ UNCHANGED << hist, dev, tim, app >>
    \/ \E k \in DOMAIN timers : RestoreReturn(k) /\ UNCHANGED << hist, dev, tim, app >>

\* One simulator with the driver and the control plane's mutators, no
\* disturbance.
Proc == AFFECTED_SENSOR

NextProc ==
    \/ Tick /\ UNCHANGED << hist, dev, tim, app >>
    \/ DriverUpdate /\ UNCHANGED << hist, dev, tim, app >>
    \/ UserStart(Proc) /\ UNCHANGED << hist, dev, tim, app >>
    \/ UserStop(Proc) /\ UNCHANGED << hist, dev, tim, app >>
    \/ UserReset(Proc) /\ UNCHANGED << hist, dev, tim, app >>
    \/ \E v \in TargetInputs : UserSetTarget(Proc, v) /\ UNCHANGED << hist, dev, tim, app >>
    \/ \E m \in RateInputs : UserSetRate(Proc, m) /\ UNCHANGED << hist, dev, tim, app >>
    \/ \E v \in PressureInputs : UserSetPressure(Proc, v) /\ UNCHANGED << hist, dev, tim, app >>
    \/ \E r \in DropRateInputs : set_drop_rate(r) /\ UNCHANGED << hist, dev, tim, app >>

SpecProc == Init /\ [][NextProc]_vars

\* One process left to settle: the driver thread of main.py runs for as long
\* as the program does (its loop updates every simulator, then waits), so
\* time passing and the driver's update are weakly fair; the control plane's
\* calls are not.  hist.op records whether the latest call on the process
\* was the driver's update or a control-plane mutator.
SettleRateInputs == {0, 2 * 600}

SettleTick == Tick /\ UNCHANGED << hist, dev, tim, app >>

SettleUpdate ==
    /\ DriverUpdate
    /\ hist' = [hist EXCEPT !.op = "update"]
    /\ UNCHANGED << dev, tim, app >>

Mutate == [hist EXCEPT !.op = "mutator"]

SettleMutator ==
    \/ UserStart(Proc) /\ hist' = Mutate /\ UNCHANGED << dev, tim, app >>
    \/ UserStop(Proc) /\ hist' = Mutate /\ UNCHANGED << dev, tim, app >>
    \/ UserReset(Proc) /\ hist' = Mutate /\ UNCHANGED << dev, tim, app >>
    \/ \E v \in TargetInputs : UserSetTarget(Proc, v) /\ hist' = Mutate /\ UNCHANGED << dev, tim, app >>
    \/ \E m \in SettleRateInputs : UserSetRate(Proc, m) /\ hist' = Mutate /\ UNCHANGED << dev, tim, app >>
    \/ \E v \in PressureInputs : UserSetPressure(Proc, v) /\ hist' = Mutate /\ UNCHANGED << dev, tim, app >>

NextSettle == SettleTick \/ SettleUpdate \/ SettleMutator

SpecSettle ==
    Init /\ [][NextSettle]_vars /\ WF_vars(SettleTick) /\ WF_vars(SettleUpdate)

\* The hub with everything around it, every thread interleaving at each
\* access to shared state.  The calls take their defaults or name a channel.
\* A call or a callback takes far less than a second: the clock advances
\* between them, not inside them.
ConcSensorArgs == {None, Some(3)}

NoHubThread ==
    /\ \A c \in Callers : calls[c].pc = "idle"
    /\ \A k \in DOMAIN timers : ~InCallback(k)

Next ==
    \/ NoHubThread /\ Tick /\ UNCHANGED << hist, dev, tim, app >>
    \/ DriverUpdate /\ UNCHANGED << hist, dev, tim, app >>
    \/ stop_monitoring /\ UNCHANGED << hist, dev, tim, app >>
    \/ \E c \in Callers, s \in ConcSensorArgs :
           /\ ncalls < MaxConcTriggers
           /\ TriggerEnter(c, None, None, None, s)
           /\ UNCHANGED << hist, dev, tim, app >>
    \/ \E c \in Callers : CallRun(c)
    \/ \E c \in Callers : TriggerSchedule(c) /\ UNCHANGED << hist, dev, tim, app >>
    \/ \E c \in Callers : TriggerReturn(c) /\ UNCHANGED << hist, dev, tim, app >>
    \/ \E k \in DOMAIN timers : TimerFire(k) /\ UNCHANGED << hist, dev, tim, app >>
    \/ RestoreStep

Spec == Init /\ [][Next]_vars

\* The same operations, each running to completion before the next begins:
\* the hub's contract for calls that do not overlap, all made by the one
\* thread of the web server's event loop.
EventLoop == 1

Quiet ==
    /\ calls[EventLoop].pc = "idle"
    /\ \A k \in DOMAIN timers : ~InCallback(k)

SeqEnv ==
    \/ Quiet /\ Tick /\ UNCHANGED << hist, dev, tim, app >>
    \/ Quiet /\ DriverUpdate /\ UNCHANGED << hist, dev, tim, app >>
    \/ Quiet /\ stop_monitoring /\ UNCHANGED << hist, dev, tim, app >>
    \/ Quiet /\ UserStart(AFFECTED_SENSOR) /\ UNCHANGED << hist, dev, tim, app >>

SeqEnter ==
    /\ \A k \in DOMAIN timers : ~InCallback(k)
    /\ ncalls < MaxTriggers
    /\ \E tp \in TargetArgs, d \in DurationArgs, r \in RateArgs, s \in SensorArgs :
           TriggerEnter(EventLoop, tp, d, r, s)
    /\ hist' = [hist EXCEPT !.entry = Entry]
    /\ UNCHANGED << dev, tim, app >>

SeqSchedule ==
    /\ TriggerSchedule(EventLoop)
    /\ hist' = [hist EXCEPT !.started =
           [ timer |-> Len(timers) + 1,
             affected |-> calls[EventLoop].affected,
             target |-> hist.entry.sims[calls[EventLoop].affected].target_pressure,
             rate |-> hist.entry.sims[calls[EventLoop].affected].rate_bar_per_sec,
             endpoint |-> 0,
             drop_rate |-> 0 ]]
    /\ UNCHANGED << dev, tim, app >>

SeqReturn ==
    /\ TriggerReturn(EventLoop)
    /\ hist' = [hist EXCEPT !.entry = NoEntry]
    /\ UNCHANGED << dev, tim, app >>

\* A call begins only when no callback is running and a Timer fires only
\* when no call is: the steps of the two never interleave.
NextSeq ==
    \/ SeqEnv
    \/ SeqEnter
    \/ CallRun(EventLoop)
    \/ SeqSchedule
    \/ SeqReturn
    \/ \E k \in DOMAIN timers : Quiet /\ TimerFire(k) /\ UNCHANGED << hist, dev, tim, app >>
    \/ RestoreStep

SpecSeq == Init /\ [][NextSeq]_vars

\* The hub called from the one thread of the web server's event loop, with
\* the Timer threads running beside it: calls never overlap each other, a
\* callback may overlap a call.
NextLate ==
    \/ NoHubThread /\ Tick /\ UNCHANGED << hist, dev, tim, app >>
    \/ DriverUpdate /\ UNCHANGED << hist, dev, tim, app >>
    \/ /\ ncalls < MaxConcTriggers
       /\ TriggerEnter(EventLoop, None, None, None, None)
       /\ UNCHANGED << hist, dev, tim, app >>
    \/ CallRun(EventLoop)
    \/ TriggerSchedule(EventLoop) /\ UNCHANGED << hist, dev, tim, app >>
    \/ TriggerReturn(EventLoop) /\ UNCHANGED << hist, dev, tim, app >>
    \/ \E k \in DOMAIN timers : TimerFire(k) /\ UNCHANGED << hist, dev, tim, app >>
    \/ RestoreStep

SpecLate == Init /\ [][NextLate]_vars

\* The serial hub with the control plane's mutators recorded: hist.op tells
\* whether a mutator was called on the disturbed process since the latest
\* disturbance was scheduled.
DropPressureInputs == {80}

DropMutator ==
    \/ Quiet /\ UserStart(AFFECTED_SENSOR) /\ hist' = Mutate /\ UNCHANGED << dev, tim, app >>
    \/ \E v \in DropPressureInputs :
           Quiet /\ UserSetPressure(AFFECTED_SENSOR, v) /\ hist' = Mutate /\ UNCHANGED << dev, tim, app >>

\* The Timer is scheduled: the history keeps the disturbance's endpoint and
\* rate beside what SeqSchedule keeps, and no mutator was called since.
DropSchedule ==
    /\ TriggerSchedule(EventLoop)
    /\ hist' = [hist EXCEPT !.op = "none", !.started =
           [ timer |-> Len(timers) + 1,
             affected |-> calls[EventLoop].affected,
             target |-> hist.entry.sims[calls[EventLoop].affected].target_pressure,
             rate |-> hist.entry.sims[calls[EventLoop].affected].rate_bar_per_sec,
             endpoint |-> calls[EventLoop].drop_target,
             drop_rate |-> calls[EventLoop].drop_rate ]]
    /\ UNCHANGED << dev, tim, app >>

NextDrop ==
    \/ Quiet /\ Tick /\ UNCHANGED << hist, dev, tim, app >>
    \/ Quiet /\ DriverUpdate /\ UNCHANGED << hist, dev, tim, app >>
    \/ DropMutator
    \/ SeqEnter
    \/ CallRun(EventLoop)
    \/ DropSchedule
    \/ SeqReturn
    \/ \E k \in DOMAIN timers : Quiet /\ TimerFire(k) /\ UNCHANGED << hist, dev, tim, app >>
    \/ RestoreStep

SpecDrop == Init /\ [][NextDrop]_vars

\* ------------------------------------- the sensors behind the register map
\* The device with its sensors and both register banks.  The hub stays idle.
InitialNoise == {-2, 0, 10}

InitDevice ==
    /\ InitPlant
    /\ dev \in {NewDevice(ConfigNoisePercent, n, 1) : n \in InitialNoise}
    /\ tim = NewTiming(TRUE)

\* The simulator's own sensor.update(current_pressure), with its history.
Sensed(d, i, pressure, noise) ==
    [d EXCEPT !.sensors[i] = sensor_update(@, pressure, noise),
              !.fed[i]     = pressure,
              !.seen[i]    = d.sensors[i].fault_mode,
              !.quiet[i]   = d.sensors[i].noise_percent <= 0]

\* _sensor_update_loop, one simulator.update(): the simulator moves and, unless
\* it returned early because it is stopped, updates its sensor.
DevUpdate ==
    \E noise \in NoiseDraws(dev.sensors[drv]) :
        /\ ~dev.refresh_due
        /\ DriverUpdate
        /\ dev' = [(IF sims[drv].running
                    THEN Sensed(dev, drv, sims'[drv].current_pressure, noise)
                    ELSE dev)
                   EXCEPT !.stage[drv]  = Max2(@, 1),
                          !.refresh_due = (drv = NumSimulators)]
        /\ UNCHANGED << hist, tim, app >>

\* _sensor_update_loop, after the last simulator: modbus_device.update_registers()
Refreshed(d) ==
    [update_registers(d) EXCEPT
        !.published   = Published(d),
        !.refresh_due = FALSE,
        !.stage = [i \in Simulators |->
                      IF d.stage[i] = 1 THEN 2 ELSE d.stage[i]]]

DevRefresh ==
    /\ dev.refresh_due
    /\ dev' = Refreshed(dev)
    /\ UNCHANGED << sims, drv, hubVars, hist, tim, app >>

DevStart(i) == UserStart(i) /\ UNCHANGED << hist, dev, tim, app >>

DevStop(i) == UserStop(i) /\ UNCHANGED << hist, dev, tim, app >>

\* PressureSimulator.reset(), its sensor.update(current_pressure) included.
DevReset(i) ==
    \E noise \in NoiseDraws(dev.sensors[i]) :
        /\ UserReset(i)
        /\ dev' = Sensed(dev, i, sims'[i].current_pressure, noise)
        /\ UNCHANGED << hist, tim, app >>

\* PressureSimulator.set_pressure(v), its sensor.update(current_pressure) included.
DevSetPressure(i, pressure) ==
    \E noise \in NoiseDraws(dev.sensors[i]) :
        /\ UserSetPressure(i, pressure)
        /\ dev' = Sensed(dev, i, sims'[i].current_pressure, noise)
        /\ UNCHANGED << hist, tim, app >>

\* web_server.py, "set_fault": self.sensors[sensor - 1].set_fault(fault_mode)
DevSetFault(i, fault_mode) ==
    /\ dev' = [dev EXCEPT !.sensors[i] = set_fault(@, fault_mode),
                          !.stage[i]   = 0]
    /\ UNCHANGED << sims, drv, hubVars, hist, tim, app >>

\* PressureSensor.set_noise_config(noise_percent=...)
DevSetNoise(i, noise_percent) ==
    /\ dev' = [dev EXCEPT !.sensors[i] = set_noise_config(@, Some(noise_percent), None)]
    /\ UNCHANGED << sims, drv, hubVars, hist, tim, app >>

\* ModbusDevice.set_data_type(channel, data_type)
DevSetDataType(channel, data_type) ==
    /\ dev' = set_data_type(dev, channel, data_type)
    /\ UNCHANGED << sims, drv, hubVars, hist, tim, app >>

\* ModbusDevice.set_device_address(address)
DevSetAddress(address) ==
    /\ dev' = set_device_address(dev, address)
    /\ UNCHANGED << sims, drv, hubVars, hist, tim, app >>

\* ModbusDevice.set_uart_params(parity_code, baud_code)
DevSetUart(parity_code, baud_code) ==
    /\ dev' = set_uart_params(dev, parity_code, baud_code)
    /\ UNCHANGED << sims, drv, hubVars, hist, tim, app >>

DevicePressureInputs == {0, 80, 200}

\* The control plane acts on the pressure of channel Proc; channel 2 is the
\* process nobody started.  Faults are injected on every channel.  No time
\* passes: a driver cycle finds each simulator where the last call put it.
NextDevice ==
    \/ DevUpdate
    \/ DevRefresh
    \/ DevStart(Proc)
    \/ DevStop(Proc)
    \/ DevReset(Proc)
    \/ \E v \in DevicePressureInputs : DevSetPressure(Proc, v)
    \/ \E i \in Simulators, m \in FaultModes : DevSetFault(i, m)
    \/ \E n \in {0, ConfigNoisePercent} : DevSetNoise(Proc, n)

SpecDevice == InitDevice /\ [][NextDevice]_vars

\* One process with its sensor while time passes: the driver's update, the
\* control plane's mutators of the process and the faults of its sensor.
\* hist.since_start follows the clock since the latest start().
SensedPressureInputs == {80}

SensedTargetInputs == {40, 200}

SensedRateInputs == {-600, 1200}

SensedFaultModes == {"none", "wire_break"}

\* SENSOR_NOISE_PERCENT = 0: the sensors add no noise.
InitSensed ==
    /\ InitPlant
    /\ dev = NewDevice(0, 0, 1)
    /\ tim = NewTiming(TRUE)

SensedTick ==
    /\ Tick
    /\ hist' = [hist EXCEPT !.since_start = Min2(@ + 1, MaxElapsed)]
    /\ UNCHANGED << dev, tim, app >>

SensedStart ==
    /\ UserStart(Proc)
    /\ hist' = [hist EXCEPT !.since_start = 0]
    /\ UNCHANGED << dev, tim, app >>

NextSensed ==
    \/ SensedTick
    \/ SensedStart
    \/ DevUpdate
    \/ DevRefresh
    \/ DevStop(Proc)
    \/ DevReset(Proc)
    \/ \E v \in SensedPressureInputs : DevSetPressure(Proc, v)
    \/ \E m \in SensedFaultModes : DevSetFault(Proc, m)
    \/ \E v \in SensedTargetInputs : UserSetTarget(Proc, v) /\ UNCHANGED << hist, dev, tim, app >>
    \/ \E m \in SensedRateInputs : UserSetRate(Proc, m) /\ UNCHANGED << hist, dev, tim, app >>

SpecSensed == InitSensed /\ [][NextSensed]_vars

\* ------------------------------------------------ timed register reads
\* The timer, its statistics and the reads of both register banks.  The
\* sensors rest and the hub stays idle.
\* The number of delay() and read calls a behaviour makes.
MaxRecords == 4

\* Elapsed times time.perf_counter() can measure around a 10 +- 2 ms sleep.
DelaySamples == {800, 1000, 1250}

InitTiming ==
    /\ InitPlant
    /\ dev = NewDevice(ConfigNoisePercent, 0, 1)
    /\ tim \in {NewTiming(TRUE), NewTiming(FALSE)}

Budget == tim.asked + tim.reads < MaxRecords

\* ESP32Timer.delay() from the end of time.sleep: self.stats.record(elapsed_ms)
delay_end(t, r, elapsed_ms) ==
    [record(t, elapsed_ms) EXCEPT !.pc[r] = "idle",
                                  !.log   = Append(@, elapsed_ms),
                                  !.done  = @ + 1]

\* get_delay_value() that also records what it computed.
get_delay_value_Recording(t) ==
    [record(t, 1000) EXCEPT !.peeks = @ + 1]

\* ESP32Timer.get_delay_value(): draws from the generator, nothing else.
get_delay_value(t) == [t EXCEPT !.peeks = @ + 1]

\* ESP32Timer.delay() called directly, up to its time.sleep.
DelayBegin(r) ==
    /\ tim.pc[r] = "idle"
    /\ Budget
    /\ tim' = [tim EXCEPT !.pc[r] = "delay", !.asked = @ + 1]
    /\ UNCHANGED << sims, drv, hubVars, hist, dev, app >>

\* The rest of that delay().
DelayEnd(r) ==
    \E elapsed_ms \in DelaySamples :
        /\ tim.pc[r] = "delay"
        /\ tim' = delay_end(tim, r, elapsed_ms)
        /\ UNCHANGED << sims, drv, hubVars, hist, dev, app >>

\* ESP32Timer.get_delay_value()
PeekDelay(r) ==
    /\ tim.pc[r] = "idle"
    /\ tim.peeks < MaxRecords
    /\ tim' = get_delay_value(tim)
    /\ UNCHANGED << sims, drv, hubVars, hist, dev, app >>

\* DelayedDataBlock.getValues on the process-value bank (a 0x04 read, or
\* get_register_values): if self.use_timing and self.timer: self.timer.delay()
ReadInputBegin(r) ==
    /\ tim.pc[r] = "idle"
    /\ Budget
    /\ tim' = [tim EXCEPT !.pc[r] = IF tim.use_timing THEN "read" ELSE "idle",
                          !.reads = @ + 1]
    /\ UNCHANGED << sims, drv, hubVars, hist, dev, app >>

\* ... the end of that delay(), then super().getValues under the lock.
ReadInputEnd(r) ==
    \E elapsed_ms \in DelaySamples :
        /\ tim.pc[r] = "read"
        /\ tim' = delay_end(tim, r, elapsed_ms)
        /\ UNCHANGED << sims, drv, hubVars, hist, dev, app >>

\* ModbusSequentialDataBlock.getValues on the configuration bank (a 0x03 read,
\* or get_data_types / get_device_address / ...): holding_registers is a plain
\* block, it has no timer.
ReadHolding(r) ==
    /\ tim.pc[r] = "idle"
    /\ Budget
    /\ tim' = [tim EXCEPT !.reads = @ + 1]
    /\ UNCHANGED << sims, drv, hubVars, hist, dev, app >>

\* A write to the configuration bank: set_data_type on channel 1.
WriteHolding(data_type) ==
    /\ dev' = set_data_type(dev, 1, data_type)
    /\ dev' # dev
    /\ UNCHANGED << sims, drv, hubVars, hist, tim, app >>

\* The refresh: update_registers, DelayedDataBlock.setValues for each channel.
Refresh ==
    /\ dev' = [update_registers(dev) EXCEPT !.published = Published(dev)]
    /\ dev' # dev
    /\ UNCHANGED << sims, drv, hubVars, hist, tim, app >>

\* ------------------------------------------------------ the computed delay
\* ESP32Timer's delay arithmetic for timers built with any base delay and
\* jitter.  Computed delays are in microseconds.
\* self._rng.random() in steps of 1 / RandomSteps.
RandomSteps == 4

\* The delay() and get_delay_value() calls a behaviour makes.
MaxDraws == 2

\* random.uniform(a, b): a + (b - a) * self.random(), for the n-th of the
\* RandomSteps steps; n = RandomSteps is the end point b that rounding can
\* return.
uniform(a, b, n) == a + ((b - a) * n) \div RandomSteps

\* The delay without its max(0, ...).
delay_value_Unclamped(base_delay_ms, jitter_ms, n) ==
    base_delay_ms * 1000 + uniform(-jitter_ms * 1000, jitter_ms * 1000, n)

\* base_delay = self.base_delay_ms / 1000.0
\* jitter = self._rng.uniform(-self.jitter_ms, self.jitter_ms) / 1000.0
\* max(0, base_delay + jitter)
delay_value(base_delay_ms, jitter_ms, n) ==
    Max2(0, base_delay_ms * 1000 + uniform(-jitter_ms * 1000, jitter_ms * 1000, n))

BaseDelayInputs == {-3, 0, 5, 10}

JitterInputs == {-2, 0, 2, 12}

\* What time.sleep adds to the delay it was asked for, in 0.01 ms.
SleepOverheads == {0, 25}

InitJitter ==
    /\ InitPlant
    /\ dev = NewDevice(0, 0, 1)
    /\ tim \in {[NewTiming(TRUE) EXCEPT !.base_delay_ms = b, !.jitter_ms = j] :
                    b \in BaseDelayInputs, j \in JitterInputs}

\* ESP32Timer.delay(): the delay is computed, slept and its measured length
\* recorded.
TimerDelay ==
    \E n \in 0..RandomSteps, overhead \in SleepOverheads :
        LET actual_delay == delay_value(tim.base_delay_ms, tim.jitter_ms, n)
            elapsed_ms   == actual_delay \div 10 + overhead
        IN  /\ Len(tim.computed) < MaxDraws
            /\ tim' = [record(tim, elapsed_ms) EXCEPT
                          !.computed = Append(@, [by |-> "delay", value |-> actual_delay]),
                          !.log      = Append(@, elapsed_ms),
                          !.asked    = @ + 1,
                          !.done     = @ + 1]
            /\ UNCHANGED << sims, drv, hubVars, hist, dev, app >>

\* ESP32Timer.get_delay_value()
TimerPeek ==
    \E n \in 0..RandomSteps :
        /\ Len(tim.computed) < MaxDraws
        /\ tim' = [get_delay_value(tim) EXCEPT
                      !.computed = Append(@,
                          [by    |-> "get_delay_value",
                           value |-> delay_value(tim.base_delay_ms, tim.jitter_ms, n)])]
        /\ UNCHANGED << sims, drv, hubVars, hist, dev, app >>

NextJitter ==
    \/ TimerDelay
    \/ TimerPeek

SpecJitter == InitJitter /\ [][NextJitter]_vars

\* ------------------------------------ the process-value bank and its mutex
\* DelayedDataBlock step by step: the delay of a read, the lock, the copy;
\* update_registers register by register.  The sensors change between and
\* during refreshes.
\* The update_registers calls a behaviour makes.
MaxRefreshes == 2

\* The block reads a behaviour makes.
MaxBlockReads == 2

\* The elapsed time the delay of a block read measures.
BankDelaySamples == {1000}

InitBank ==
    /\ InitPlant
    /\ dev = NewDevice(0, 0, 1)
    /\ tim \in {NewTiming(TRUE), NewTiming(FALSE)}

\* ModbusSequentialDataBlock.getValues(address, count)
block_getValues(d, address, count) ==
    [k \in 1..count |-> d.input_registers[address + k - 1]]

\* ModbusSequentialDataBlock.setValues(address, values)
block_setValues(d, address, values) ==
    [d EXCEPT !.input_registers =
        [a \in InputCells |->
            IF a \in address..(address + Len(values) - 1)
            THEN values[a - address + 1] ELSE d.input_registers[a]]]

\* DelayedDataBlock.getValues that returns without leaving its with block.
getValues_Holding(d, r, address, count) ==
    [d EXCEPT !.got[r] = Some(block_getValues(d, address, count))]

\* DelayedDataBlock.getValues, its with block: the copy, then the release.
getValues(d, r, address, count) ==
    [d EXCEPT !.got[r] = Some(block_getValues(d, address, count)),
              !.lock   = None]

\* DelayedDataBlock.setValues, its with block: the write, then the release.
setValues(d, address, values) ==
    [block_setValues(d, address, values) EXCEPT !.lock = None]

\* A block read of all eight process values (function code 0x04, address 0,
\* count 8, through the server context) is called: the delay begins, or with
\* timing off the thread goes for the lock.
BankReadBegin(r) ==
    /\ tim.pc[r] = "idle"
    /\ tim.reads < MaxBlockReads
    /\ tim' = [tim EXCEPT !.pc[r] = IF tim.use_timing THEN "read" ELSE "lock",
                          !.reads = @ + 1]
    /\ dev' = [dev EXCEPT !.began[r] = dev.cycles]
    /\ UNCHANGED << sims, drv, hubVars, hist, app >>

\* timer.delay() returns.
BankReadWake(r) ==
    \E elapsed_ms \in BankDelaySamples :
        /\ tim.pc[r] = "read"
        /\ tim' = [delay_end(tim, r, elapsed_ms) EXCEPT !.pc[r] = "lock"]
        /\ UNCHANGED << sims, drv, hubVars, hist, dev, app >>

\* with self._lock: entered.
BankReadLock(r) ==
    /\ tim.pc[r] = "lock"
    /\ dev.lock = None
    /\ dev' = [dev EXCEPT !.lock = Some(r)]
    /\ tim' = [tim EXCEPT !.pc[r] = "copy"]
    /\ UNCHANGED << sims, drv, hubVars, hist, app >>

\* return super().getValues(address, count), and the lock is released.
BankReadCopy(r) ==
    /\ tim.pc[r] = "copy"
    /\ dev' = getValues(dev, r, REG_INPUT_CH1 + dev.offset, NUM_CHANNELS)
    /\ tim' = [tim EXCEPT !.pc[r] = "idle"]
    /\ UNCHANGED << sims, drv, hubVars, hist, app >>

\* update_registers is called.
BankRefreshBegin ==
    /\ dev.cursor = 0
    /\ dev.cycles < MaxRefreshes
    /\ dev' = [dev EXCEPT !.cursor = 1, !.cycles = @ + 1]
    /\ UNCHANGED << sims, drv, hubVars, hist, tim, app >>

\* update_registers, input_registers.setValues(i + 1, ...): the lock is taken,
\* the register written and the lock released; after the eighth register
\* update_registers returns.
BankSetValues ==
    /\ dev.cursor > 0
    /\ dev.lock = None
    /\ LET written == setValues([dev EXCEPT !.lock = Some(0)], dev.cursor,
                                << Published(dev)[dev.cursor] >>)
       IN  dev' = IF dev.cursor < NUM_CHANNELS
                  THEN [written EXCEPT !.cursor = @ + 1]
                  ELSE [written EXCEPT !.cursor = 0,
                                       !.banks  = @ \cup {written.input_registers}]
    /\ UNCHANGED << sims, drv, hubVars, hist, tim, app >>

BankPressureInputs == {80}

NextBank ==
    \/ \E r \in Readers : BankReadBegin(r)
    \/ \E r \in Readers : BankReadWake(r)
    \/ \E r \in Readers : BankReadLock(r)
    \/ \E r \in Readers : BankReadCopy(r)
    \/ BankRefreshBegin
    \/ BankSetValues
    \/ \E i \in Simulators, v \in BankPressureInputs : DevSetPressure(i, v)

SpecBank == InitBank /\ [][NextBank]_vars

\* ------------------------------------------------- the snapshot accessors
\* Each accessor as the pair of the object it leaves behind (self) and the
\* dict it returns (ret).
\* PressureSensor.get_state
sensor_get_state(s) ==
    [ self |-> s,
      ret  |-> [ true_pressure     |-> s.true_pressure,
                 measured_pressure |-> s.measured_pressure,
                 current_ma        |-> s.current_ma,
                 modbus_value      |-> s.modbus_value,
                 fault_mode        |-> s.fault_mode ] ]

\* PressureSimulator.get_state
simulator_get_state(p) ==
    [ self |-> p,
      ret  |-> [ start_pressure   |-> p.start_pressure,
                 target_pressure  |-> p.target_pressure,
                 current_pressure |-> p.current_pressure,
                 rate_bar_per_min |-> p.rate_bar_per_sec * SEC_PER_MIN,
                 running          |-> p.running,
                 at_target        |-> is_at_target(p) ] ]

\* ModbusHub.get_state: under the lock, a dict of the hub's fields.
hub_get_state ==
    [ trigger_active         |-> trigger_active,
      pressure_drop_rate     |-> pressure_drop_rate,
      pressure_drop_duration |-> DropDuration,
      affected_sensor        |-> AFFECTED_SENSOR ]

\* TimingStats.get_stats that hands its samples out and starts afresh.
stats_get_stats_Draining(t) ==
    [ self |-> [t EXCEPT !.response_times = << >>],
      ret  |-> get_stats(t) ]

\* TimingStats.get_stats
stats_get_stats(t) == [ self |-> t, ret |-> get_stats(t) ]

\* ModbusDevice.get_config_state: four reads of the configuration bank.
device_get_config_state(d) == [ self |-> d, ret |-> get_config_state(d) ]

\* web_server.py, _get_full_status: every snapshot accessor, one after the
\* other.
GetStatus(r) ==
    /\ tim.pc[r] = "idle"
    /\ hub_lock = None
    /\ ~tim.polled
    /\ sims' = [i \in Simulators |-> simulator_get_state(sims[i]).self]
    /\ dev' = device_get_config_state(
                  [dev EXCEPT !.sensors =
                      [i \in Simulators |-> sensor_get_state(dev.sensors[i]).self]]).self
    /\ tim' = [stats_get_stats(tim).self EXCEPT !.polled = TRUE]
    /\ UNCHANGED << drv, hubVars, hist, app >>

NextTiming ==
    \/ \E r \in Readers : DelayBegin(r)
    \/ \E r \in Readers : DelayEnd(r)
    \/ \E r \in Readers : PeekDelay(r)
    \/ \E r \in Readers : ReadInputBegin(r)
    \/ \E r \in Readers : ReadInputEnd(r)
    \/ \E r \in Readers : ReadHolding(r)
    \/ \E r \in Readers : GetStatus(r)
    \/ \E t \in {2, DATA_TYPE_4_20MA} : WriteHolding(t)
    \/ Refresh

SpecTiming == InitTiming /\ [][NextTiming]_vars

\* --------------------------------------------- the register map on the wire
\* Both register banks as the server context serves them.  The offset the
\* context adds to a wire address belongs to the Modbus library, not to this
\* program: the device is built with either.
InitRegisters ==
    /\ InitPlant
    /\ dev \in {NewDevice(ConfigNoisePercent, 0, o) : o \in {0, 1}}
    /\ tim = NewTiming(TRUE)

\* Pairs (parity_code, baud_code) callers pass: codes of the lookup tables and
\* codes outside them.
UartInputs == { << 0, 1 >>, << 2, 5 >>, << 7, 2 >>, << 1, 9 >>, << 1, 300 >> }

NextRegisters ==
    \/ \E v \in DevicePressureInputs : DevSetPressure(Proc, v)
    \/ \E i \in Simulators, m \in FaultModes : DevSetFault(i, m)
    \/ Refresh
    \/ \E ch \in {0, 1, NUM_CHANNELS}, t \in {2, 5} : DevSetDataType(ch, t)
    \/ \E a \in {0, 5} : DevSetAddress(a)
    \/ \E u \in UartInputs : DevSetUart(u[1], u[2])

SpecRegisters == InitRegisters /\ [][NextRegisters]_vars

\* ------------------------------------------- the configuration bank at rest
\* Refreshes, reads of both banks and the mutators of the configuration bank
\* with arguments inside and outside their documented ranges.  The Modbus
\* server's handler reads the process values, the status poll the
\* configuration.
\* What get_data_types, get_uart_params, get_device_address and
\* get_software_version read from the holding block.
ConfigWords(d) ==
    get_data_types(d)
        \o << get_uart_word(d), get_device_address(d), get_software_word(d) >>

\* get_register_values()
ReadBank(r) ==
    /\ dev' = [dev EXCEPT !.got[r] = Some(get_register_values(dev))]
    /\ dev' # dev
    /\ UNCHANGED << sims, drv, hubVars, hist, tim, app >>

\* get_config_state(): the four getters of the configuration bank.
ReadConfig(r) ==
    /\ dev' = [dev EXCEPT !.got[r] = Some(ConfigWords(dev))]
    /\ dev' # dev
    /\ UNCHANGED << sims, drv, hubVars, hist, tim, app >>

\* Channel numbers callers pass; channel 0x7001 is the one whose data-type
\* register would be 0x8000.
ConfigChannelInputs == {0, 1, NUM_CHANNELS, NUM_CHANNELS + 1,
                        REG_SOFTWARE_VER - REG_DATA_TYPE_BASE + 1}

ConfigTypeInputs == {-1, 2, 5}

ConfigAddressInputs == {0, 5, 256, REG_SOFTWARE_VER}

ConfigUartInputs == { << 0, 1 >>, << 2, 5 >>, << 1, 300 >>, << 128, 0 >> }

NextConfig ==
    \/ \E v \in BankPressureInputs : DevSetPressure(Proc, v)
    \/ \E m \in {"none", "wire_break"} : DevSetFault(Proc, m)
    \/ Refresh
    \/ ReadBank(1)
    \/ ReadConfig(2)
    \/ \E ch \in ConfigChannelInputs, t \in ConfigTypeInputs : DevSetDataType(ch, t)
    \/ \E a \in ConfigAddressInputs : DevSetAddress(a)
    \/ \E u \in ConfigUartInputs : DevSetUart(u[1], u[2])

SpecConfig == InitSensed /\ [][NextConfig]_vars

\* ------------------------------------------- the update thread and stop()
\* main.py, _sensor_update_loop and stop().  The update interval is a tenth
\* of a second: a wait of the loop ends within the second it began in.
InitLoop ==
    /\ InitPlant
    /\ dev = NewDevice(0, 0, 1)
    /\ tim = NewTiming(TRUE)

\* time.sleep(update_interval) where the loop has Event.wait: it blocks
\* whether or not the event is set.
event_wait_Sleeping(is_set) == "waiting"

\* threading.Event.wait(timeout) as the loop calls it: it returns at once
\* when the event is set and blocks otherwise.
event_wait(is_set) == IF is_set THEN "test" ELSE "waiting"

\* line 109: while not self._shutdown_event.is_set()
LoopTest ==
    /\ app.loop = "test"
    /\ app' = [app EXCEPT !.loop = IF app.shutdown THEN "exited" ELSE "update"]
    /\ UNCHANGED << sims, drv, hubVars, hist, dev, tim >>

\* lines 112-113: simulator.update() of the next simulator
LoopUpdate ==
    /\ app.loop = "update"
    /\ DevUpdate

\* line 116: update_registers() after the last simulator, on to the wait
LoopRefresh ==
    /\ app.loop = "update"
    /\ dev.refresh_due
    /\ dev' = Refreshed(dev)
    /\ app' = [app EXCEPT !.loop = "wait",
                          !.late_rounds = IF app.shutdown THEN Min2(@ + 1, 2) ELSE @]
    /\ UNCHANGED << sims, drv, hubVars, hist, tim >>

\* line 119: self._shutdown_event.wait(update_interval)
LoopWait ==
    /\ app.loop = "wait"
    /\ app' = [app EXCEPT !.loop = event_wait(app.shutdown),
                          !.late_wait = @ \/ (app.shutdown /\ event_wait(app.shutdown) = "waiting")]
    /\ UNCHANGED << sims, drv, hubVars, hist, dev, tim >>

\* The wait ends: the interval is over or the event was set.
LoopWake ==
    /\ app.loop = "waiting"
    /\ app' = [app EXCEPT !.loop = "test"]
    /\ UNCHANGED << sims, drv, hubVars, hist, dev, tim >>

\* lines 121-122: a statement of the round raises; the round is abandoned.
LoopRaise ==
    /\ app.loop = "update"
    /\ app' = [app EXCEPT !.loop = "sleep", !.late_raise = @ \/ app.shutdown]
    /\ drv' = 1
    /\ dev' = [dev EXCEPT !.refresh_due = FALSE]
    /\ UNCHANGED << sims, hubVars, hist, tim >>

\* line 123: time.sleep(0.1), then back to the head of the loop
LoopSleep ==
    /\ app.loop = "sleep"
    /\ app' = [app EXCEPT !.loop = "test"]
    /\ UNCHANGED << sims, drv, hubVars, hist, dev, tim >>

\* stop(), line 196: self._shutdown_event.set(); stop_server() only logs.
StopSet ==
    /\ app.stop = "none"
    /\ app' = [app EXCEPT !.shutdown = TRUE, !.stop = "hub"]
    /\ UNCHANGED << sims, drv, hubVars, hist, dev, tim >>

\* stop(), line 200: self.hub.stop_monitoring(), which returns with _running
\* False and, where there was a handle, the Timer cancelled and forgotten.
StopHub ==
    /\ app.stop = "hub"
    /\ IF restore_timer # None
       THEN stop_monitoring
       ELSE UNCHANGED << sims, drv, hubVars >>
    /\ app' = [app EXCEPT !.hub_running = FALSE, !.stop = "join"]
    /\ UNCHANGED << hist, dev, tim >>

\* stop(), lines 203-204: thread.join(timeout=2.0) returns when the thread
\* has ended or two seconds are over.
StopJoin ==
    /\ app.stop = "join"
    /\ app' = [app EXCEPT !.stop = "stopped"]
    /\ UNCHANGED << sims, drv, hubVars, hist, dev, tim >>

LoopStep ==
    \/ LoopTest
    \/ LoopUpdate
    \/ LoopRefresh
    \/ LoopWait
    \/ LoopWake
    \/ LoopSleep

NextLoop ==
    \/ LoopTest
    \/ LoopUpdate
    \/ LoopRefresh
    \/ LoopWait
    \/ LoopWake
    \/ LoopRaise
    \/ LoopSleep
    \/ StopSet
    \/ StopHub
    \/ StopJoin
    \/ Tick /\ UNCHANGED << hist, dev, tim, app >>
    \/ DevStart(Proc)
    \/ DevStop(Proc)
    \/ \E v \in TargetInputs : UserSetTarget(Proc, v) /\ UNCHANGED << hist, dev, tim, app >>

\* The update thread is scheduled for as long as the program runs: each of
\* its steps is weakly fair.  An exception is not: a round need not raise.
SpecLoop == InitLoop /\ [][NextLoop]_vars /\ WF_vars(LoopStep)

\* The hub beside the update thread while stop() runs.  The web server's
\* thread is a daemon thread that stop() does not end; the calls here are
\* those of its event loop that began before stop() did.
NextShutdown ==
    \/ LoopTest
    \/ LoopUpdate
    \/ LoopRefresh
    \/ LoopWait
    \/ LoopWake
    \/ LoopRaise
    \/ LoopSleep
    \/ StopSet
    \/ StopHub
    \/ StopJoin
    \/ NoHubThread /\ Tick /\ UNCHANGED << hist, dev, tim, app >>
    \/ DevStart(Proc)
    \/ /\ app.stop = "none"
       /\ ncalls < MaxTriggers
       /\ TriggerEnter(EventLoop, None, None, None, None)
       /\ UNCHANGED << hist, dev, tim, app >>
    \/ CallRun(EventLoop)
    \/ TriggerSchedule(EventLoop) /\ UNCHANGED << hist, dev, tim, app >>
    \/ TriggerReturn(EventLoop) /\ UNCHANGED << hist, dev, tim, app >>
    \/ \E k \in DOMAIN timers : TimerFire(k) /\ UNCHANGED << hist, dev, tim, app >>
    \/ RestoreStep

SpecShutdown == InitLoop /\ [][NextShutdown]_vars

\* ========================================================== properties
WaitingTimers == {k \in DOMAIN timers : timers[k].state = "waiting"}

Returned(outcomes) ==
    calls[EventLoop].pc = "return" /\ calls[EventLoop].outcome \in outcomes

LastEvent == events[Len(events)]

\* C1: under any interleaving of concurrent trigger_pressure_drop calls and
\* the restoration timer on one hub, at most one restoration timer is pending
\* at any time (and so at most one disturbance is waiting to be restored).
C1_AtMostOnePendingTimer == Cardinality(WaitingTimers) <= 1

\* C2: whenever trigger_pressure_drop returns from a call made while a
\* disturbance was active, with any arguments, the process that disturbance
\* affected is stopped with the target and rate it had when the disturbance
\* started, no restoration is pending, active and stored_state are cleared,
\* one stopped event has been emitted and no other process has changed.
C2_CancelRestoresAffected ==
    Returned({"cancel", "cancel_invalid"}) =>
        LET a == hist.started.affected
        IN  /\ ~sims[a].running
            /\ sims[a].target_pressure = hist.started.target
            /\ sims[a].rate_bar_per_sec = hist.started.rate
            /\ WaitingTimers = {}
            /\ ~trigger_active
            /\ stored_state = None
            /\ Len(events) = hist.entry.nevents + 1
            /\ LastEvent.type = "pressure_drop_stopped"
            /\ \A j \in Simulators \ {a} : sims[j] = hist.entry.sims[j]

\* C3: when the restoration callback of a disturbance has run (its timer was
\* never cancelled), the hub's active flag is false, stored_state is absent,
\* the affected process is stopped with the target and rate it had
\* immediately before the trigger, and a restored event has been emitted.
C3_RestoreReturnsToSnapshot ==
    \A k \in DOMAIN timers :
        timers[k].state = "return" =>
            LET a == timers[k].affected
            IN  /\ hist.started.timer = k
                /\ hist.started.affected = a
                /\ ~trigger_active
                /\ stored_state = None
                /\ ~sims[a].running
                /\ sims[a].target_pressure = hist.started.target
                /\ sims[a].rate_bar_per_sec = hist.started.rate
                /\ Len(events) > 0
                /\ LastEvent = [type |-> "pressure_restore", sensor |-> a]

C3_Witness ==
    \E k \in DOMAIN timers :
        /\ timers[k].state = "return"
        /\ hist.started.target # sims[timers[k].affected].start_pressure
        /\ sims[timers[k].affected].current_pressure
               # sims[timers[k].affected].start_pressure

\* The arguments and findings of the call that is returning.
TheCall == calls[EventLoop]

\* The rate a trigger works with: the override if given, else the hub's.
EffectiveRate ==
    IF TheCall.rate # None THEN Val(TheCall.rate) ELSE pressure_drop_rate

\* The pressure the affected process had when the call began.
EntryPressure == hist.entry.sims[TheCall.affected].current_pressure

\* The disturbance endpoint the arguments of the call ask for.
Endpoint ==
    IF TheCall.target_pressure # None
    THEN Clamp(Val(TheCall.target_pressure))
    ELSE IF TheCall.duration_seconds # None
         THEN Clamp(EntryPressure - EffectiveRate * Val(TheCall.duration_seconds))
         ELSE Clamp(EntryPressure - EffectiveRate * DropDuration)

\* C4: when trigger_pressure_drop returns from a call made on an inactive hub
\* with a valid channel, active is true, stored_state holds the target and
\* rate the affected process had when the call began, the process has the
\* disturbance endpoint as target and the drop rate as rate and is running,
\* exactly one started event has been emitted and exactly one restoration
\* timer has been scheduled and is the only one pending.
C4_StartOnInactiveHub ==
    Returned({"start"}) =>
        LET a == TheCall.affected
        IN  /\ a = Affected(TheCall.sensor)
            /\ trigger_active
            /\ stored_state =
                   Some([target |-> hist.entry.sims[a].target_pressure,
                         rate |-> hist.entry.sims[a].rate_bar_per_sec])
            /\ sims[a].target_pressure = Endpoint
            /\ sims[a].rate_bar_per_sec = EffectiveRate
            /\ sims[a].running
            /\ Len(events) = hist.entry.nevents + 1
            /\ LastEvent = [type |-> "pressure_drop", sensor |-> a]
            /\ Len(timers) = hist.entry.ntimers + 1
            /\ restore_timer = Some(Len(timers))
            /\ WaitingTimers = {Len(timers)}
            /\ \A j \in Simulators \ {a} : sims[j] = hist.entry.sims[j]

C4_Witness ==
    /\ Returned({"start"})
    /\ ~hist.entry.sims[TheCall.affected].running
    /\ sims[TheCall.affected].target_pressure
           # hist.entry.sims[TheCall.affected].target_pressure
    /\ sims[TheCall.affected].rate_bar_per_sec
           # hist.entry.sims[TheCall.affected].rate_bar_per_sec

\* C5: when trigger_pressure_drop returns from a call made on an inactive hub
\* whose resolved channel is invalid, active is false, no timer has been
\* scheduled, no event emitted, no snapshot stored, and every process is as
\* it was when the call began.
C5_InvalidChannelRejected ==
    Returned({"rejected"}) =>
        /\ ~ValidSensor(Affected(TheCall.sensor))
        /\ ~trigger_active
        /\ Len(timers) = hist.entry.ntimers
        /\ restore_timer = hist.entry.handle
        /\ WaitingTimers = {}
        /\ Len(events) = hist.entry.nevents
        /\ stored_state = hist.entry.stored
        /\ sims = hist.entry.sims

C5_Witness ==
    /\ Returned({"rejected"})
    /\ ~hist.entry.active
    /\ TheCall.sensor = Some(3)

\* C6: when a trigger on an inactive hub returns, the endpoint given to the
\* process and the duration given to the timer follow the priority: with
\* target_pressure, the endpoint is clamp(target_pressure) and the duration
\* times the rate is |current - endpoint|, also when duration_seconds is
\* given; else the endpoint is clamp(current - rate * d) and the duration is
\* d, where d is duration_seconds if given and the configured default if not.
C6_EndpointPriority ==
    Returned({"start"}) =>
        LET a == TheCall.affected
            t == timers[Len(timers)]
            d == IF TheCall.duration_seconds # None
                 THEN Val(TheCall.duration_seconds) ELSE DropDuration
        IN  IF TheCall.target_pressure # None
            THEN /\ sims[a].target_pressure = Clamp(Val(TheCall.target_pressure))
                 /\ t.delay.num * EffectiveRate
                        = Abs(EntryPressure - sims[a].target_pressure)
                              * t.delay.den
            ELSE /\ sims[a].target_pressure
                        = Clamp(EntryPressure - EffectiveRate * d)
                 /\ t.delay.num = d * t.delay.den

\* C7: the current pressure of every process is within [0, 1.6] bar in
\* every state reachable through update, start, stop, reset, set_target,
\* set_rate and set_pressure with arbitrary arguments.
C7_PressureInRange ==
    \A i \in Simulators :
        /\ sims[i].current_pressure >= MIN_PRESSURE_BAR
        /\ sims[i].current_pressure <= MAX_PRESSURE_BAR

\* C8: every update() on a running process moves its current pressure
\* toward the target without crossing it: the pressure stays on its side of
\* the target and the distance to the target does not grow.
C8_UpdateTowardTarget ==
    [][DriverUpdate =>
        LET p == sims[drv]
            q == sims'[drv]
        IN  p.running =>
              /\ q.target_pressure = p.target_pressure
              /\ Abs(q.current_pressure - q.target_pressure)
                     <= Abs(p.current_pressure - p.target_pressure)
              /\ p.current_pressure <= p.target_pressure
                     => q.current_pressure <= p.target_pressure
              /\ p.current_pressure >= p.target_pressure
                     => q.current_pressure >= p.target_pressure]_vars

UpdatedRunning == sims[Proc].running /\ hist.op = "update"

AtTarget == sims[Proc] \in {p \in {sims[i] : i \in Simulators} : is_at_target(p)}

Mutated == hist.op = "mutator"

\* C9: once the driver has updated a running process, repeated updates
\* eventually make is_at_target() true, unless a mutator is called on the
\* process before that.
C9_EventuallyAtTarget == UpdatedRunning ~> (AtTarget \/ Mutated)

\* C10: the stored rate of every process is strictly positive in every
\* reachable state, whatever rate set_rate was called with.
C10_StoredRatePositive ==
    \A i \in Simulators : sims[i].rate_bar_per_sec > 0

\* C11: in every reachable state, whatever the fault mode and whatever value
\* update() was given, each sensor's register value lies in 0 .. 32767, and so
\* does every cell of the process-value bank after a refresh.
C11_RegisterInRange ==
    /\ \A i \in Simulators : dev.sensors[i].modbus_value \in 0..MAX_MODBUS_VALUE
    /\ \A a \in InputCells : dev.input_registers[a] \in 0..MAX_MODBUS_VALUE

\* C12: a sensor whose latest update(v) ran under wire_break shows measured
\* value 0, the lowest transducer code (no sensor ever shows a lower one) and
\* register value 0, whatever v was; one whose latest update(v) ran under
\* sensor_defect shows the clamped v as measured value, the fixed code outside
\* the 4-20 mA band, and the register value the register mapping gives for
\* that code.
C12_FaultOutputs ==
    \A i \in Simulators :
        LET s == dev.sensors[i] IN
        /\ dev.seen[i] = "wire_break" =>
              /\ s.measured_pressure = 0
              /\ s.current_ma = WIRE_BREAK_MA
              /\ \A j \in Simulators : dev.sensors[j].current_ma >= s.current_ma
              /\ s.modbus_value = 0
        /\ dev.seen[i] = "sensor_defect" =>
              /\ s.measured_pressure = Clamp(dev.fed[i])
              /\ s.current_ma = SENSOR_DEFECT_MA
              /\ s.current_ma \notin MIN_CURRENT_MA..MAX_CURRENT_MA
              /\ s.modbus_value = current_to_modbus(s.current_ma)

\* What a sensor and its register show when mode m is in effect.
Prescribed(s, register, m) ==
    IF m = "wire_break"
    THEN s.measured_pressure = 0 /\ s.current_ma = WIRE_BREAK_MA /\ register = 0
    ELSE IF m = "sensor_defect"
    THEN /\ s.measured_pressure = s.true_pressure
         /\ s.current_ma = SENSOR_DEFECT_MA
         /\ register >= MAX_MODBUS_VALUE
    ELSE /\ s.current_ma = pressure_to_current(s.measured_pressure)
         /\ s.current_ma \in MIN_CURRENT_MA..MAX_CURRENT_MA
         /\ register \in 0..MAX_MODBUS_VALUE

\* C13: once the driver loop has run its update step for a channel and the
\* refresh after it since set_fault(m) returned on that channel's sensor, the
\* sensor's measured value, code and register value and the register cell the
\* refresh writes for the channel are those of mode m, whether the channel's
\* process is running or stopped.
C13_FaultEffective ==
    \A i \in Simulators :
        dev.stage[i] = 2 =>
            /\ Prescribed(dev.sensors[i], dev.sensors[i].modbus_value,
                          dev.sensors[i].fault_mode)
            /\ Prescribed(dev.sensors[i], dev.input_registers[i],
                          dev.sensors[i].fault_mode)

\* The sensors whose latest update(v) ran with zero noise and no fault on a v
\* within the sensor range.
CleanlyUpdated ==
    {i \in Simulators :
        /\ dev.quiet[i]
        /\ dev.seen[i] = "none"
        /\ dev.fed[i] \in MIN_PRESSURE_BAR..MAX_PRESSURE_BAR}

\* C14 as stated: after such an update(v) the measured value is v, the code is
\* 4 mA + (v / 1.6) * 16 mA, and the register value is
\* round((code - 4) / 16 * 32767) clamped to 0 .. 32767: 0 for v = 0 and 32767
\* for v = 1.6 bar.
C14_RoundedRegister ==
    \A i \in CleanlyUpdated :
        LET s == dev.sensors[i]
            v == dev.fed[i]
        IN  /\ s.measured_pressure = v
            /\ 160 * s.current_ma = 160 * 40 + v * 160
            /\ s.modbus_value =
                  Max2(0, Min2(32767, Round((s.current_ma - 40) * 32767, 160)))
            /\ v = 0 => s.modbus_value = 0
            /\ v = 160 => s.modbus_value = 32767

\* C14 amended: the register value is the integer part of
\* (code - 4) / 16 * 32767, which is never more than one unit away from the
\* rounded value; the rest as stated.
C14_TruncatedRegister ==
    \A i \in CleanlyUpdated :
        LET s == dev.sensors[i]
            v == dev.fed[i]
        IN  /\ s.measured_pressure = v
            /\ 160 * s.current_ma = 160 * 40 + v * 160
            /\ s.modbus_value =
                  Max2(0, Min2(32767, ((s.current_ma - 40) * 32767) \div 160))
            /\ Abs(s.modbus_value - Round((s.current_ma - 40) * 32767, 160)) <= 1
            /\ v = 0 => s.modbus_value = 0
            /\ v = 160 => s.modbus_value = 32767

\* Channel Proc was updated with 0.8 bar, noise off and no fault: register 16383.
C14_Witness ==
    /\ Proc \in CleanlyUpdated
    /\ dev.fed[Proc] = 80
    /\ dev.sensors[Proc].modbus_value = 16383

\* C15: after N record calls, in whatever order concurrent callers got the
\* lock, total_requests = N and response_times is the last min(N, window)
\* samples in arrival order; total_requests never decreases.
C15_WindowOfMostRecent ==
    LET N == Len(tim.log)
        kept == Min2(N, StatsWindow)
    IN  /\ tim.total_requests = N
        /\ tim.response_times = SubSeq(tim.log, N - kept + 1, N)

\* More samples were recorded than the window holds.
C15_Witness ==
    /\ Len(tim.log) > StatsWindow
    /\ tim.log[1] # tim.log[Len(tim.log)]

\* The samples the window retains, taken from the history of arrivals.
Retained ==
    SubSeq(tim.log, Len(tim.log) - Min2(Len(tim.log), StatsWindow) + 1, Len(tim.log))

\* C16: get_stats() on no samples reports 0 for average, minimum, maximum and
\* jitter; on at least one sample minimum and maximum are the least and the
\* greatest retained sample, the average is the rounded mean of the retained
\* samples and lies between them, and jitter is 0 for a single sample;
\* total_requests counts every record ever made.
C16_StatsOverWindow ==
    LET st == get_stats(tim)
        w  == Retained
    IN  /\ st.total_requests = Len(tim.log)
        /\ w = << >> =>
              /\ st.avg_response_ms = 0 /\ st.min_response_ms = 0
              /\ st.max_response_ms = 0 /\ st.jitter_ms = 0
        /\ w # << >> =>
              /\ st.min_response_ms <= st.avg_response_ms
              /\ st.avg_response_ms <= st.max_response_ms
              /\ \E k \in DOMAIN w : w[k] = st.min_response_ms
              /\ \E k \in DOMAIN w : w[k] = st.max_response_ms
              /\ \A k \in DOMAIN w : st.min_response_ms <= w[k] /\ w[k] <= st.max_response_ms
              /\ 2 * Abs(st.avg_response_ms * Len(w) - SumSeq(w)) <= Len(w)
              /\ st.jitter_ms >= 0
              /\ Len(w) = 1 => st.jitter_ms = 0
              /\ st.min_response_ms = st.max_response_ms => st.jitter_ms = 0

\* Samples were evicted and the retained ones differ, the oldest not the least.
C16_Witness ==
    /\ Len(tim.log) > StatsWindow
    /\ get_stats(tim).min_response_ms < tim.response_times[1]
    /\ get_stats(tim).jitter_ms > 0

\* No thread is inside a delay().
NoneAsleep == \A r \in Readers : tim.pc[r] = "idle"

\* C17: every delay() that returned recorded exactly one sample and raised
\* total_requests by one, and no get_delay_value() call recorded anything:
\* the samples recorded and total_requests both number the delay() calls
\* that returned, however many get_delay_value() calls were made.
C17_OneSamplePerDelay ==
    /\ tim.total_requests = tim.done
    /\ Len(tim.log) = tim.done
    /\ Len(tim.response_times) = Min2(tim.done, StatsWindow)

\* Both kinds of call were made: delay() returned twice and get_delay_value()
\* was called more often than that.
C17_Witness ==
    /\ tim.done = 2
    /\ tim.peeks > tim.done
    /\ NoneAsleep

\* C18: with timing enabled, every call of a read entry point, on the
\* process-value bank and on the configuration bank alike, performs exactly
\* one delay, so the samples recorded and the threads still asleep together
\* number the reads begun plus the delay() calls made directly; writes and the
\* refresh add none; with timing disabled only the direct delay() calls count.
C18_OneDelayPerRead ==
    tim.total_requests + Cardinality({r \in Readers : tim.pc[r] # "idle"})
        = tim.asked + (IF tim.use_timing THEN tim.reads ELSE 0)

\* C19: after every refresh the bank get_register_values() returns holds, at
\* position k - 1 of the list (position k of the sequence), the register value
\* the refresh took from sensor k for each configured channel k, and 0 in
\* every other slot.
C19_BankMatchesSensors ==
    \A k \in Channels : get_register_values(dev)[k] = dev.published[k]

\* C20: through the server context each register is readable at its
\* documented address, with one address convention for both banks, and the
\* read returns what the core accessor reports: the process value of channel
\* k at input address 0x0000 + (k - 1), its data type at holding address
\* 0x1000 + (k - 1), the UART word at 0x2000, the device address at 0x4000 and
\* the software-version word 0x0064 at 0x8000.
C20_DocumentedAddresses ==
    /\ \A k \in Channels :
          /\ ContextReadInput(dev, REG_INPUT_CH1 + (k - 1)) = Some(dev.published[k])
          /\ ContextReadInput(dev, REG_INPUT_CH1 + (k - 1))
                = Some(get_register_values(dev)[k])
          /\ ContextReadHolding(dev, REG_DATA_TYPE_BASE + (k - 1))
                = Some(get_data_types(dev)[k])
    /\ ContextReadHolding(dev, REG_UART_PARAMS) = Some(get_uart_word(dev))
    /\ ContextReadHolding(dev, REG_DEVICE_ADDR) = Some(get_device_address(dev))
    /\ ContextReadHolding(dev, REG_SOFTWARE_VER) = Some(get_software_word(dev))
    /\ get_software_word(dev) = 100

\* C21: a configuration mutator called with an out-of-range value leaves the
\* whole configuration bank as it was: set_data_type with a channel outside
\* 1..8 or a data type outside 0..4, set_device_address with an address outside
\* 1..255, set_uart_params with a parity code outside 0..2 or a baud code
\* outside 0..5.
C21_OutOfRangeIgnored ==
    [][/\ \A ch \in {0, 1, NUM_CHANNELS}, t \in {2, 5} :
             (DevSetDataType(ch, t) /\ (ch \notin 1..8 \/ t \notin 0..4))
                 => dev'.holding_registers = dev.holding_registers
       /\ \A a \in {0, 5} :
             (DevSetAddress(a) /\ a \notin 1..255)
                 => dev'.holding_registers = dev.holding_registers
       /\ \A u \in UartInputs :
             (DevSetUart(u[1], u[2]) /\ (u[1] \notin 0..2 \/ u[2] \notin 0..5))
                 => dev'.holding_registers = dev.holding_registers]_vars

\* The baud rate of each code of the table, as documented.
DocumentedBaud == << 4800, 9600, 19200, 38400, 57600, 115200 >>

DocumentedParity == << "N", "E", "O" >>

\* C22: after set_uart_params(p, b) with p in 0..2 and b in 0..5 the UART
\* register holds the 16-bit word with high byte p and low byte b, and
\* get_uart_params() and get_config_state() decode it to the baud rate of b
\* and the parity of p; a word whose baud byte is in no table decodes to 9600,
\* one whose parity byte is in no table decodes to no parity.
C22_UartRoundTrip ==
    LET word == get_uart_word(dev)
        io   == get_uart_params(dev)
        cfg  == get_config_state(dev)
    IN  /\ cfg.baudrate = io.baudrate /\ cfg.parity = io.parity
        /\ (dev.uart_args # None
               /\ Val(dev.uart_args)[1] \in 0..2 /\ Val(dev.uart_args)[2] \in 0..5) =>
              LET p == Val(dev.uart_args)[1]
                  b == Val(dev.uart_args)[2]
              IN  /\ word = 256 * p + b
                  /\ word \in 0..65535
                  /\ io.baudrate = DocumentedBaud[b + 1]
                  /\ io.parity = DocumentedParity[p + 1]
        /\ word % 256 \notin 0..5 => io.baudrate = 9600
        /\ (word \div 256) % 256 \notin 0..2 => io.parity = "N"

\* set_uart_params(2, 5) was the latest call: 115200 baud, odd parity.
C22_Witness ==
    /\ dev.uart_args = Some(<< 2, 5 >>)
    /\ get_config_state(dev).baudrate = 115200
    /\ get_config_state(dev).parity = "O"

\* C23: in every reachable state, also after set_device_address(a) for a valid
\* a, the bus addresses the server context answers under are exactly the
\* address register 0x4000 holds and the broadcast address 0 (both on the one
\* register map).
C23_AnswersUnderConfiguredAddress ==
    dev.served = {get_device_address(dev), BROADCAST_ADDR}

\* C24: the step that polls the status is the one that sets tim.polled.  A
\* call of the snapshot accessors (the sensors', the processes', the
\* hub's get_state, get_stats, get_config_state) changes no sensor field, no
\* process field, no hub field, no register, no timing sample or count, and
\* draws nothing from the timer's random stream.
C24_SnapshotsChangeNothing ==
    [][(tim'.polled /\ ~tim.polled) =>
          /\ sims' = sims
          /\ hubVars' = hubVars
          /\ dev' = dev
          /\ tim'.response_times = tim.response_times
          /\ tim'.total_requests = tim.total_requests
          /\ tim'.log = tim.log
          /\ tim'.peeks = tim.peeks
          /\ tim'.pc = tim.pc]_vars

\* The status was polled with samples recorded, a reader asleep in a delay and
\* the registers refreshed.
C24_Witness ==
    /\ tim.polled
    /\ tim.total_requests > 0
    /\ \E r \in Readers : tim.pc[r] # "idle"
    /\ dev.input_registers[1] > 0

\* C26: once stop() has set the shutdown event the update loop completes at
\* most the round in progress, begins no wait of the update interval, and
\* ends, also when the round in progress raises.
C26_LoopEndsAfterShutdown ==
    /\ [](app.late_rounds <= 1 /\ ~app.late_wait)
    /\ (app.shutdown ~> app.loop = "exited")

\* The loop has ended after a round that raised with the event set.
C26_Witness ==
    /\ app.loop = "exited"
    /\ app.late_raise

\* C25: once stop_monitoring() has returned, no step of a restoration callback
\* is taken: none clears the hub's flag, none touches a process.
C25_NoRestoreAfterShutdown ==
    [][~app.hub_running =>
          ~(\E k \in DOMAIN timers :
                \/ RestoreClear(k)
                \/ RestoreSetTarget(k)
                \/ RestoreSetRate(k)
                \/ RestoreStop(k))]_vars

\* C27: in every state of the hub the snapshot is present only while the
\* hub is active: an inactive hub has no stored_state, whenever no thread is
\* inside a critical section of the hub.
C27_SnapshotOnlyWhileActive ==
    (hub_lock = None /\ ~trigger_active) => stored_state = None

\* The steps the source takes inside 'with self._lock': the first critical
\* section of trigger_pressure_drop (lines 107-134, the cancel branch keeping
\* the lock over its later steps), the clearing of the flag for an invalid
\* channel (lines 143-144) and the head of restore() (lines 200-202).
HoldsHubLock ==
    \/ hub_lock # None
    \/ \E c \in Callers, s \in ConcSensorArgs : TriggerEnter(c, None, None, None, s)
    \/ \E c \in Callers : TriggerResolve(c)
    \/ \E k \in DOMAIN timers : RestoreClear(k)

\* C28: every step that writes the hub's active flag, its stored_state or its
\* restoration-timer handle is taken by a thread holding the hub's lock.
C28_HubWritesUnderLock ==
    [][(\/ trigger_active' # trigger_active
        \/ stored_state' # stored_state
        \/ restore_timer' # restore_timer) => HoldsHubLock]_vars

\* Process i has the target of a disturbance being applied and still the rate
\* it had before, or the target restored and still the disturbance's rate.
HalfWritten(i) ==
    \/ \E c \in Callers :
           /\ calls[c].pc = "L184"
           /\ calls[c].affected = i
           /\ sims[i].target_pressure = calls[c].drop_target
           /\ sims[i].rate_bar_per_sec # calls[c].drop_rate
    \/ \E k \in DOMAIN timers :
           /\ timers[k].state = "L208"
           /\ timers[k].affected = i
           /\ sims[i].target_pressure = timers[k].original_target
           /\ sims[i].rate_bar_per_sec # timers[k].original_rate

\* C29: the driver's update() never runs on a running process between the
\* hub's write of its target and the hub's write of its rate.
C29_UpdateSeesWholeWrite ==
    [][(drv' # drv /\ sims[drv].running) => ~HalfWritten(drv)]_vars

\* No mutator was called on the disturbed process since the disturbance was
\* scheduled, and the driver has updated it since the clock last moved, that
\* is, within the buffer after the computed duration.
UpdatedInBuffer ==
    /\ hist.op # "mutator"
    /\ sims[hist.started.affected].since_update = 0

\* C30: the restoration of the latest disturbance fires no earlier than its
\* computed duration plus half a second after the trigger, and when it fires
\* the disturbed process, updated by the driver within the buffer, is at the
\* disturbance's endpoint.
C30_FiresAtEndpoint ==
    [][\A k \in DOMAIN timers :
          (TimerFire(k) /\ k = hist.started.timer /\ UpdatedInBuffer) =>
              /\ DelayOver(timers[k])
              /\ sims[hist.started.affected].current_pressure
                     = hist.started.endpoint]_vars

\* How many events of a type the trigger callback has received.
EventCount(type) ==
    Cardinality({i \in DOMAIN events : events[i].type = type})

\* C31: once no call is in progress, no Timer is waiting or running and the
\* hub is inactive, every disturbance that began has ended exactly once: as
\* many stopped and restored events were emitted as started events.
C31_EndsExactlyOnce ==
    (/\ Quiet
     /\ WaitingTimers = {}
     /\ ~trigger_active)
        => EventCount("pressure_drop")
              = EventCount("pressure_drop_stopped") + EventCount("pressure_restore")

\* Timer k belongs to a disturbance older than one still under way: a Timer
\* created after it is waiting for the same process.
Superseded(k) ==
    \E j \in WaitingTimers : j > k /\ timers[j].affected = timers[k].affected

\* C32: the callback of a Timer does not clear the hub's flag and snapshot
\* once its disturbance was cancelled and a later disturbance of that process
\* is under way.
C32_CallbackSparesLaterDisturbance ==
    [][\A k \in DOMAIN timers : RestoreClear(k) => ~Superseded(k)]_vars

\* C33: whenever the hub is active and no trigger call is in progress, a
\* restoration Timer is waiting or its callback is running.
C33_ActiveHasPendingRestore ==
    (trigger_active /\ \A c \in Callers : calls[c].pc = "idle")
        => \E k \in DOMAIN timers : timers[k].state = "waiting" \/ InCallback(k)

\* C34: the driver's update() of a process that is not running leaves the
\* process, its elapsed-time base included, and its sensor as they were.
C34_StoppedUpdateChangesNothing ==
    [][(drv' # drv /\ ~sims[drv].running) =>
          /\ sims'[drv] = sims[drv]
          /\ dev'.sensors[drv] = dev.sensors[drv]]_vars

\* The driver has passed over the stopped process, which is away from its
\* target with time elapsed since its last update and whose sensor has a
\* fault set that no update has applied yet.
C34_Witness ==
    /\ drv = Proc + 1
    /\ dev.stage[Proc] >= 1
    /\ ~sims[Proc].running
    /\ sims[Proc].since_update > 0
    /\ sims[Proc].rate_bar_per_sec > 0
    /\ sims[Proc].current_pressure # sims[Proc].target_pressure
    /\ dev.sensors[Proc].fault_mode = "wire_break"
    /\ dev.sensors[Proc].current_ma # WIRE_BREAK_MA

\* C35: an update() of the running process moves current_pressure by no more
\* than its rate times the time since the latest start(): the time the
\* process spent stopped before that start() adds nothing.
C35_NoStaleElapsedJump ==
    [][(drv' # drv /\ drv = Proc /\ sims[Proc].running) =>
          Abs(sims'[Proc].current_pressure - sims[Proc].current_pressure)
              <= Abs(sims[Proc].rate_bar_per_sec) * hist.since_start]_vars

\* The process was started, the clock moved once, and the driver has updated
\* it since: it is under way to its target.
C35_Witness ==
    /\ sims[Proc].running
    /\ hist.since_start = 1
    /\ sims[Proc].since_update = 0
    /\ sims[Proc].current_pressure # sims[Proc].start_pressure
    /\ sims[Proc].current_pressure # sims[Proc].target_pressure

\* C36: between the operations of a process its sensor's true value is the
\* process's current_pressure.
C36_SensorFollowsProcess ==
    \A i \in Simulators :
        dev.sensors[i].true_pressure = sims[i].current_pressure

\* C37: a thread holds the process-value bank's mutex only while it copies:
\* never while it sleeps in the simulated delay of its read, so a refresh that
\* finds the mutex taken waits for a copy, never for a delay.
C37_NoLockDuringDelay ==
    \A r \in Readers : dev.lock = Some(r) => tim.pc[r] = "copy"

\* Every reader sleeps in the delay of its read, and an update_registers that
\* was called after these reads has returned.
C37_Witness ==
    /\ tim.use_timing
    /\ \A r \in Readers : tim.pc[r] = "read" /\ dev.cycles > dev.began[r]
    /\ dev.cursor = 0
    /\ dev.input_registers[1] # 0

\* The eight registers a block read returns, taken from a whole bank.
BlockOf(bank) ==
    [k \in 1..NUM_CHANNELS |-> bank[REG_INPUT_CH1 + dev.offset + k - 1]]

\* C38: a block read of the process-value bank returns the registers of one
\* refresh cycle: the bank as a finished update_registers (or the construction)
\* left it, never some registers of one cycle and some of the next.
C38_BlockReadOfOneCycle ==
    \A r \in Readers :
        dev.got[r] # None => \E bank \in dev.banks : Val(dev.got[r]) = BlockOf(bank)

\* C39: a refresh and a read of either bank leave every word of the
\* configuration bank as it was, and the software-version word is 0x0064 in
\* every state, whatever arguments set_data_type, set_device_address and
\* set_uart_params are called with.
C39_ConfigBankAtRest ==
    /\ [](dev.holding_registers[REG_SOFTWARE_VER] = SOFTWARE_VERSION)
    /\ [][(\/ dev'.input_registers # dev.input_registers
           \/ dev'.published # dev.published
           \/ dev'.got # dev.got)
              => dev'.holding_registers = dev.holding_registers]_vars

\* Every mutator has changed its word, a refresh has filled the process-value
\* bank, and both banks were read after that.
C39_Witness ==
    /\ get_data_types(dev)[1] # DATA_TYPE_4_20MA
    /\ get_device_address(dev) # ConfigSlaveId
    /\ get_uart_word(dev) > 255
    /\ dev.input_registers[1] # 0
    /\ dev.got[1] = Some(get_register_values(dev))
    /\ dev.got[2] = Some(ConfigWords(dev))

\* C40: for a timer with base delay and jitter bound J both non-negative,
\* every delay that delay() or get_delay_value() computes is not negative,
\* lies between max(0, base - J) and base + J, and is the base delay itself
\* when J = 0.
C40_DelayWithinJitter ==
    (tim.base_delay_ms >= 0 /\ tim.jitter_ms >= 0) =>
        \A k \in DOMAIN tim.computed :
            LET actual == tim.computed[k].value
            IN  /\ actual >= 0
                /\ actual >= Max2(0, (tim.base_delay_ms - tim.jitter_ms) * 1000)
                /\ actual <= (tim.base_delay_ms + tim.jitter_ms) * 1000
                /\ tim.jitter_ms = 0 => actual = tim.base_delay_ms * 1000

\* The jitter bound exceeds the base delay: delay() computed a delay that
\* max(0, ...) raised to 0 and get_delay_value() one at the upper end.
C40_Witness ==
    /\ tim.base_delay_ms > 0
    /\ tim.jitter_ms > tim.base_delay_ms
    /\ \E k \in DOMAIN tim.computed :
          tim.computed[k].by = "delay" /\ tim.computed[k].value = 0
    /\ \E k \in DOMAIN tim.computed :
          /\ tim.computed[k].by = "get_delay_value"
          /\ tim.computed[k].value = (tim.base_delay_ms + tim.jitter_ms) * 1000

====
